---- MODULE Spec2Model ----
(***************************************************************************)
(* The authentication token lifecycle of roda-auth-service: the users,     *)
(* refresh_tokens and audit_logs tables, the token codec, the repositories *)
(* and the AuthService operations register, login, refresh, logout and     *)
(* verify.                                                                  *)
(*                                                                         *)
(* Time is a discrete clock.  Its unit is chosen so that the configured    *)
(* access-token lifetime is ACCESS_TOKEN_EXPIRE_MINUTES ticks and the      *)
(* refresh-token lifetime REFRESH_TOKEN_EXPIRE_DAYS ticks.                 *)
(***************************************************************************)
EXTENDS Integers, Sequences, FiniteSets, TLC

VARIABLES
    users,            \* table "users": a set of User rows
    refresh_tokens,   \* table "refresh_tokens": a set of RefreshToken rows
    audit_logs,       \* table "audit_logs": a sequence of AuditLog rows
    now,              \* the wall clock (datetime.utcnow(), func.now())
    resp,             \* the call being answered: operation, inputs, outcome
    rotated,          \* history: the refresh tokens a refresh call has rotated
    req               \* requests in flight (used by the interleaved specification)

vars == <<users, refresh_tokens, audit_logs, now, resp, rotated, req>>

-----------------------------------------------------------------------------
(* Bounds of the model *)

MaxTime == 3
MaxRows == 3
NumNonces == 2

(* Configuration (app/config/settings.py) *)

ACCESS_TOKEN_EXPIRE_MINUTES == 1
REFRESH_TOKEN_EXPIRE_DAYS == 2
SECRET_KEY == "SECRET_KEY"

(* Inputs *)

Cedulas == {"12345678", "87654321"}
Passwords == {"password-1", "password-2"}
RegisterPasswords == {"password-1"}
ConcurrentCedula == "12345678"
IpAddress == "10.0.0.1"
Nonces == 1..NumNonces
Procs == {"req1", "req2"}

\* Optional[X] is a set with at most one element; None is the empty set.
None == {}
Some(x) == {x}
The(opt) == CHOOSE x \in opt : TRUE

\* A string that does not parse as a token.
Malformed ==
    [payload |-> [sub |-> 0, cedula |-> "", role |-> "", type |-> "", iat |-> 0,
                  exp |-> 0, jti |-> 0],
     sig |-> "malformed"]

-----------------------------------------------------------------------------
(* app/utils/security.py is not among the sources: the codec and the      *)
(* password hash follow the specification (section 4.1, section 6).        *)

get_password_hash(password) == <<"hash", password>>

verify_password(password, password_hash) == password_hash = get_password_hash(password)

\* issue(claims, kind="access", ttl): embeds kind, issued-at and expiry, signs.
create_access_token(data, expires_delta, t) ==
    [payload |-> [sub |-> data.sub, cedula |-> data.cedula, role |-> data.role,
                  type |-> "access", iat |-> t, exp |-> t + expires_delta, jti |-> 0],
     sig |-> SECRET_KEY]

\* issue(claims, kind="refresh", ttl = refresh TTL) with a random payload jti.
create_refresh_token(data, t, jti) ==
    [payload |-> [sub |-> data.sub, cedula |-> "", role |-> "",
                  type |-> "refresh", iat |-> t, exp |-> t + REFRESH_TOKEN_EXPIRE_DAYS,
                  jti |-> jti],
     sig |-> SECRET_KEY]

\* A validation that hands back the claims without the role.
verify_token_drops_role(token, token_type, t) ==
    IF token.sig = "malformed" THEN None
    ELSE IF token.sig # SECRET_KEY THEN None
    ELSE IF t > token.payload.exp THEN None
    ELSE IF token.payload.type # token_type THEN None
    ELSE Some([token.payload EXCEPT !.role = ""])

\* validate(token, expected_kind): Malformed, InvalidSignature, Expired
\* (current time exceeds the embedded expiry), WrongKind; else the claims.
verify_token(token, token_type, t) ==
    IF token.sig = "malformed" THEN None
    ELSE IF token.sig # SECRET_KEY THEN None
    ELSE IF t > token.payload.exp THEN None
    ELSE IF token.payload.type # token_type THEN None
    ELSE Some(token.payload)

\* A token whose signature was not made with the process-wide key.
Tamper(token) == [token EXCEPT !.sig = "other-key"]

-----------------------------------------------------------------------------
(* UserRepository *)

\* uuid.uuid4: an id no row has.
NewUserId(U) == Cardinality(U) + 1

UserRepository_get_user_by_cedula(U, cedula) == { u \in U : u.cedula = cedula }

\* A lookup that returns the first user, whatever id is asked for.
get_user_by_id_first(U, user_id) == { u \in U : u.id = 1 }

\* A lookup by id that returns active users only.
get_user_by_id_active_only(U, user_id) ==
    { u \in U : u.id = user_id /\ u.status = "active" }

UserRepository_get_user_by_id(U, user_id) == { u \in U : u.id = user_id }

\* An authentication that turns away users that are not verified and active.
authenticate_user_verified_only(U, cedula, password) ==
    LET user == UserRepository_get_user_by_cedula(U, cedula) IN
    IF user = None THEN None
    ELSE IF ~verify_password(password, The(user).password_hash) THEN None
    ELSE IF ~The(user).is_verified \/ The(user).status # "active" THEN None
    ELSE user

UserRepository_authenticate_user(U, cedula, password) ==
    LET user == UserRepository_get_user_by_cedula(U, cedula) IN
    IF user = None THEN None
    ELSE IF ~verify_password(password, The(user).password_hash) THEN None
    ELSE user

UserRepository_check_cedula_exists(U, cedula) == \E u \in U : u.cedula = cedula

\* User(**user_data) with the column defaults of the model; the password
\* hashed is the confirm_password field of the request.  first_name stands
\* for the personal columns of the request (first_name, last_name, phone,
\* address), profile_photo_url for the three nullable image columns, and
\* created_at takes the server default.
UserRepository_create_user(U, cedula, confirm_password) ==
    [id |-> NewUserId(U), cedula |-> cedula,
     password_hash |-> get_password_hash(confirm_password),
     first_name |-> "first_name", profile_photo_url |-> "null",
     role |-> "customer", status |-> "pending_verification",
     is_verified |-> FALSE, created_at |-> "func.now()", last_login |-> "null"]

\* user.last_login = user.updated_at: the column takes the value updated_at held.
UserRepository_update_last_login(U, user_id) ==
    { IF u.id = user_id THEN [u EXCEPT !.last_login = "updated_at"] ELSE u : u \in U }

-----------------------------------------------------------------------------
(* RefreshTokenRepository *)

\* An insert that replaces the row that holds the token string.
create_refresh_token_overwrites(R, token_data) ==
    [raised |-> FALSE,
     table |-> { r \in R : r.token # token_data.token }
                 \cup {[user_id |-> token_data.user_id, token |-> token_data.token,
                         expires_at |-> token_data.expires_at, is_revoked |-> FALSE,
                         created_by_ip |-> token_data.created_by_ip]}]

\* An insert into a table whose token column is not unique.
create_refresh_token_not_unique(R, token_data) ==
    [raised |-> FALSE,
     table |-> R \cup {[user_id |-> token_data.user_id, token |-> token_data.token,
                       expires_at |-> token_data.expires_at, is_revoked |-> FALSE,
                       created_by_ip |-> token_data.created_by_ip]}]

\* RefreshToken(**token_data); token is a unique column, so the commit of a
\* second row with the same token string raises IntegrityError.
RefreshTokenRepository_create_refresh_token(R, token_data) ==
    IF \E r \in R : r.token = token_data.token
    THEN [raised |-> TRUE, table |-> R]
    ELSE [raised |-> FALSE,
          table |-> R \cup {[user_id |-> token_data.user_id, token |-> token_data.token,
                            expires_at |-> token_data.expires_at, is_revoked |-> FALSE,
                            created_by_ip |-> token_data.created_by_ip]}]

\* A lookup that leaves out the is_revoked filter.
get_refresh_token_any_flag(R, token, t) ==
    { r \in R : r.token = token /\ r.expires_at > t }

\* A lookup that leaves out the expires_at filter.
get_refresh_token_any_age(R, token, t) ==
    { r \in R : r.token = token /\ r.is_revoked = FALSE }

RefreshTokenRepository_get_refresh_token(R, token, t) ==
    { r \in R : r.token = token /\ r.is_revoked = FALSE /\ r.expires_at > t }

\* A revocation that reports the row found and never sets its flag.
revoke_refresh_token_flag_not_set(R, token) ==
    IF \E r \in R : r.token = token
    THEN [result |-> TRUE, table |-> R]
    ELSE [result |-> FALSE, table |-> R]

\* A revocation that looks for the row among the unrevoked rows only.
revoke_refresh_token_unrevoked_only(R, token) ==
    IF \E r \in R : r.token = token /\ r.is_revoked = FALSE
    THEN [result |-> TRUE,
          table |-> { IF r.token = token THEN [r EXCEPT !.is_revoked = TRUE] ELSE r : r \in R }]
    ELSE [result |-> FALSE, table |-> R]

\* A revocation that flips the flag of the row.
revoke_refresh_token_toggles(R, token) ==
    IF \E r \in R : r.token = token
    THEN [result |-> TRUE,
          table |-> { IF r.token = token THEN [r EXCEPT !.is_revoked = ~r.is_revoked] ELSE r
                        : r \in R }]
    ELSE [result |-> FALSE, table |-> R]

RefreshTokenRepository_revoke_refresh_token(R, token) ==
    IF \E r \in R : r.token = token
    THEN [result |-> TRUE,
          table |-> { IF r.token = token THEN [r EXCEPT !.is_revoked = TRUE] ELSE r : r \in R }]
    ELSE [result |-> FALSE, table |-> R]

-----------------------------------------------------------------------------
(* AuditLogger / AuditRepository *)

\* AuditRepository.__init__(self, db) takes the session; without it the
\* construction raises TypeError.
AuditRepository_init(db) == IF db = None THEN [raised |-> TRUE] ELSE [raised |-> FALSE]

AuditRepository_create_audit_log(A, audit_data) == Append(A, audit_data)

\* A log_action without its try/except: the exception of the audit write
\* reaches the caller.
log_action_propagates(A, audit_data) ==
    LET audit_repo == AuditRepository_init(None)
    IN  IF audit_repo.raised THEN [raised |-> TRUE, table |-> A]
        ELSE [raised |-> FALSE, table |-> AuditRepository_create_audit_log(A, audit_data)]

\* log_action builds the row, constructs AuditRepository() with no session
\* and writes; any exception is caught and logged locally, so the caller
\* sees no exception.
AuditLogger_log_action(A, audit_data) ==
    LET audit_repo == AuditRepository_init(None)
    IN  IF audit_repo.raised THEN [raised |-> FALSE, table |-> A]
        ELSE [raised |-> FALSE, table |-> AuditRepository_create_audit_log(A, audit_data)]

\* The arguments of one log_action call.
AuditData(user_id, action, cedula) ==
    [user_id |-> user_id, action |-> action, resource |-> "user", cedula |-> cedula]

-----------------------------------------------------------------------------
(* AuthService: each operation maps the tables, the clock and its inputs   *)
(* to its (success, message, payload) outcome and the tables it leaves.    *)
(* calls lists the AuditLogger.log_action calls it made.                   *)

Outcome(success, message, payload, U, R, A, calls) ==
    [success |-> success, message |-> message, payload |-> payload,
     users |-> U, refresh_tokens |-> R, audit_logs |-> A, calls |-> calls]

\* A token response whose expires_in is the lifetime in minutes.
TokenResponse_in_minutes(access_token, refresh_token) ==
    [access_token |-> access_token, refresh_token |-> refresh_token,
     token_type |-> "bearer", expires_in |-> ACCESS_TOKEN_EXPIRE_MINUTES]

TokenResponse(access_token, refresh_token) ==
    [access_token |-> access_token, refresh_token |-> refresh_token,
     token_type |-> "bearer", expires_in |-> ACCESS_TOKEN_EXPIRE_MINUTES * 60]

AuthService_register_user(U, R, A, cedula, password) ==
    IF UserRepository_check_cedula_exists(U, cedula)
    THEN Outcome(FALSE, "La cedula ya esta registrada", None, U, R, A, <<>>)
    ELSE LET user == UserRepository_create_user(U, cedula, password)
             call == AuditData(Some(user.id), "register", cedula)
             logged == AuditLogger_log_action(A, call)
         IN  IF logged.raised
             THEN Outcome(FALSE, "Error registrando usuario: TypeError", None,
                          U \cup {user}, R, logged.table, <<call>>)
             ELSE Outcome(TRUE, "Usuario registrado exitosamente",
                          Some([user_id |-> user.id]),
                          U \cup {user}, R, logged.table, <<call>>)

\* A login that tells the caller when the cedula is not registered.
login_user_names_unknown_cedula(U, R, A, t, cedula, password, ip_address, jti) ==
    LET user == UserRepository_authenticate_user(U, cedula, password) IN
    IF user = None
    THEN LET call == AuditData(None, "login_failed", cedula)
             logged == AuditLogger_log_action(A, call)
         IN  IF logged.raised
             THEN Outcome(FALSE, "Error en login: TypeError", None,
                          U, R, logged.table, <<call>>)
             ELSE Outcome(FALSE,
                          IF UserRepository_get_user_by_cedula(U, cedula) = None
                          THEN "Usuario no encontrado"
                          ELSE "Cedula o contrasena incorrecta",
                          None, U, R, logged.table, <<call>>)
    ELSE LET u == The(user)
             access_token ==
                 create_access_token([sub |-> u.id, cedula |-> u.cedula, role |-> u.role],
                                     ACCESS_TOKEN_EXPIRE_MINUTES, t)
             refresh_token == create_refresh_token([sub |-> u.id], t, jti)
             token_data == [user_id |-> u.id, token |-> refresh_token,
                            expires_at |-> t + REFRESH_TOKEN_EXPIRE_DAYS,
                            created_by_ip |-> ip_address]
             created == RefreshTokenRepository_create_refresh_token(R, token_data)
             call == AuditData(Some(u.id), "login", u.cedula)
             logged == AuditLogger_log_action(A, call)
         IN  IF created.raised
             THEN Outcome(FALSE, "Error en login: IntegrityError", None, U, R, A, <<>>)
             ELSE IF logged.raised
             THEN Outcome(FALSE, "Error en login: TypeError", None,
                          UserRepository_update_last_login(U, u.id), created.table,
                          logged.table, <<call>>)
             ELSE Outcome(TRUE, "Login exitoso",
                          Some(TokenResponse(access_token, refresh_token)),
                          UserRepository_update_last_login(U, u.id), created.table,
                          logged.table, <<call>>)

AuthService_login_user(U, R, A, t, cedula, password, ip_address, jti) ==
    LET user == UserRepository_authenticate_user(U, cedula, password) IN
    IF user = None
    THEN LET call == AuditData(None, "login_failed", cedula)
             logged == AuditLogger_log_action(A, call)
         IN  IF logged.raised
             THEN Outcome(FALSE, "Error en login: TypeError", None,
                          U, R, logged.table, <<call>>)
             ELSE Outcome(FALSE, "Cedula o contrasena incorrecta", None,
                          U, R, logged.table, <<call>>)
    ELSE LET u == The(user)
             access_token ==
                 create_access_token([sub |-> u.id, cedula |-> u.cedula, role |-> u.role],
                                     ACCESS_TOKEN_EXPIRE_MINUTES, t)
             refresh_token == create_refresh_token([sub |-> u.id], t, jti)
             token_data == [user_id |-> u.id, token |-> refresh_token,
                            expires_at |-> t + REFRESH_TOKEN_EXPIRE_DAYS,
                            created_by_ip |-> ip_address]
             created == RefreshTokenRepository_create_refresh_token(R, token_data)
             call == AuditData(Some(u.id), "login", u.cedula)
             logged == AuditLogger_log_action(A, call)
         IN  IF created.raised
             THEN Outcome(FALSE, "Error en login: IntegrityError", None, U, R, A, <<>>)
             ELSE IF logged.raised
             THEN Outcome(FALSE, "Error en login: TypeError", None,
                          UserRepository_update_last_login(U, u.id), created.table,
                          logged.table, <<call>>)
             ELSE Outcome(TRUE, "Login exitoso",
                          Some(TokenResponse(access_token, refresh_token)),
                          UserRepository_update_last_login(U, u.id), created.table,
                          logged.table, <<call>>)

\* A refresh that persists the new token and never revokes the presented one.
refresh_access_token_without_revoke(U, R, A, t, refresh_token, ip_address, jti) ==
    LET token_data == verify_token(refresh_token, "refresh", t) IN
    IF token_data = None
    THEN Outcome(FALSE, "Refresh token invalido o expirado", None, U, R, A, <<>>)
    ELSE
    LET stored_token == RefreshTokenRepository_get_refresh_token(R, refresh_token, t) IN
    IF stored_token = None
    THEN Outcome(FALSE, "Refresh token no encontrado", None, U, R, A, <<>>)
    ELSE
    LET user == UserRepository_get_user_by_id(U, The(token_data).sub) IN
    IF user = None
    THEN Outcome(FALSE, "Usuario no encontrado", None, U, R, A, <<>>)
    ELSE
    LET u == The(user)
        new_access_token ==
            create_access_token([sub |-> u.id, cedula |-> u.cedula, role |-> u.role],
                                ACCESS_TOKEN_EXPIRE_MINUTES, t)
        new_refresh_token == create_refresh_token([sub |-> u.id], t, jti)
        new_token_data == [user_id |-> u.id, token |-> new_refresh_token,
                           expires_at |-> t + REFRESH_TOKEN_EXPIRE_DAYS,
                           created_by_ip |-> ip_address]
        created == RefreshTokenRepository_create_refresh_token(R, new_token_data)
    IN  IF created.raised
        THEN Outcome(FALSE, "Error renovando token: IntegrityError", None, U, R, A, <<>>)
        ELSE Outcome(TRUE, "Token renovado exitosamente",
                     Some(TokenResponse(new_access_token, new_refresh_token)),
                     U, created.table, A, <<>>)

AuthService_refresh_access_token(U, R, A, t, refresh_token, ip_address, jti) ==
    LET token_data == verify_token(refresh_token, "refresh", t) IN
    IF token_data = None
    THEN Outcome(FALSE, "Refresh token invalido o expirado", None, U, R, A, <<>>)
    ELSE
    LET stored_token == RefreshTokenRepository_get_refresh_token(R, refresh_token, t) IN
    IF stored_token = None
    THEN Outcome(FALSE, "Refresh token no encontrado", None, U, R, A, <<>>)
    ELSE
    LET user == UserRepository_get_user_by_id(U, The(token_data).sub) IN
    IF user = None
    THEN Outcome(FALSE, "Usuario no encontrado", None, U, R, A, <<>>)
    ELSE
    LET u == The(user)
        new_access_token ==
            create_access_token([sub |-> u.id, cedula |-> u.cedula, role |-> u.role],
                                ACCESS_TOKEN_EXPIRE_MINUTES, t)
        new_refresh_token == create_refresh_token([sub |-> u.id], t, jti)
        revoked == RefreshTokenRepository_revoke_refresh_token(R, refresh_token)
        new_token_data == [user_id |-> u.id, token |-> new_refresh_token,
                           expires_at |-> t + REFRESH_TOKEN_EXPIRE_DAYS,
                           created_by_ip |-> ip_address]
        created == RefreshTokenRepository_create_refresh_token(revoked.table, new_token_data)
    IN  IF created.raised
        THEN Outcome(FALSE, "Error renovando token: IntegrityError", None,
                     U, revoked.table, A, <<>>)
        ELSE Outcome(TRUE, "Token renovado exitosamente",
                     Some(TokenResponse(new_access_token, new_refresh_token)),
                     U, created.table, A, <<>>)

\* A logout that revokes the supplied refresh token before it validates the
\* access token.
logout_user_revokes_first(U, R, A, t, access_token, refresh_token) ==
    LET R1 == IF refresh_token # None
              THEN RefreshTokenRepository_revoke_refresh_token(R, The(refresh_token)).table
              ELSE R
        token_data == verify_token(access_token, "access", t)
    IN  IF token_data = None
        THEN Outcome(FALSE, "Token invalido", None, U, R1, A, <<>>)
        ELSE LET call == AuditData(Some(The(token_data).sub), "logout", "")
                 logged == AuditLogger_log_action(A, call)
             IN  IF logged.raised
                 THEN Outcome(FALSE, "Error en logout: TypeError", None, U, R1,
                              logged.table, <<call>>)
                 ELSE Outcome(TRUE, "Logout exitoso", None, U, R1, logged.table, <<call>>)

\* A logout that revokes every refresh token of the user.
logout_user_revokes_all(U, R, A, t, access_token, refresh_token) ==
    LET token_data == verify_token(access_token, "access", t) IN
    IF token_data = None
    THEN Outcome(FALSE, "Token invalido", None, U, R, A, <<>>)
    ELSE LET user_id == The(token_data).sub
             R1 == { IF r.user_id = user_id THEN [r EXCEPT !.is_revoked = TRUE] ELSE r
                       : r \in R }
             call == AuditData(Some(user_id), "logout", "")
             logged == AuditLogger_log_action(A, call)
         IN  IF logged.raised
             THEN Outcome(FALSE, "Error en logout: TypeError", None, U, R1,
                          logged.table, <<call>>)
             ELSE Outcome(TRUE, "Logout exitoso", None, U, R1, logged.table, <<call>>)

AuthService_logout_user(U, R, A, t, access_token, refresh_token) ==
    LET token_data == verify_token(access_token, "access", t) IN
    IF token_data = None
    THEN Outcome(FALSE, "Token invalido", None, U, R, A, <<>>)
    ELSE LET user_id == The(token_data).sub
             R1 == IF refresh_token # None
                   THEN RefreshTokenRepository_revoke_refresh_token(R, The(refresh_token)).table
                   ELSE R
             call == AuditData(Some(user_id), "logout", "")
             logged == AuditLogger_log_action(A, call)
         IN  IF logged.raised
             THEN Outcome(FALSE, "Error en logout: TypeError", None, U, R1,
                          logged.table, <<call>>)
             ELSE Outcome(TRUE, "Logout exitoso", None, U, R1, logged.table, <<call>>)

\* A verify that revokes the refresh tokens of the subject it has resolved.
verify_token_revokes_sessions(U, R, A, t, token) ==
    LET token_data == verify_token(token, "access", t) IN
    IF token_data = None
    THEN Outcome(FALSE, "Token invalido o expirado", None, U, R, A, <<>>)
    ELSE LET user == UserRepository_get_user_by_id(U, The(token_data).sub) IN
         IF user = None
         THEN Outcome(FALSE, "Usuario no encontrado", None, U, R, A, <<>>)
         ELSE Outcome(TRUE, "Token valido", token_data, U,
                      { IF r.user_id = The(user).id THEN [r EXCEPT !.is_revoked = TRUE]
                        ELSE r : r \in R },
                      A, <<>>)

\* A verify that accepts an access token only while its subject holds an
\* active refresh token.
verify_token_needs_session(U, R, A, t, token) ==
    LET token_data == verify_token(token, "access", t) IN
    IF token_data = None
    THEN Outcome(FALSE, "Token invalido o expirado", None, U, R, A, <<>>)
    ELSE LET user == UserRepository_get_user_by_id(U, The(token_data).sub) IN
         IF user = None
         THEN Outcome(FALSE, "Usuario no encontrado", None, U, R, A, <<>>)
         ELSE IF ~\E r \in R : r.user_id = The(user).id /\ ~r.is_revoked /\ r.expires_at > t
         THEN Outcome(FALSE, "Token invalido o expirado", None, U, R, A, <<>>)
         ELSE Outcome(TRUE, "Token valido", token_data, U, R, A, <<>>)

\* A verify that asks the codec for the wrong kind.
verify_token_expects_refresh(U, R, A, t, token) ==
    LET token_data == verify_token(token, "refresh", t) IN
    IF token_data = None
    THEN Outcome(FALSE, "Token invalido o expirado", None, U, R, A, <<>>)
    ELSE LET user == UserRepository_get_user_by_id(U, The(token_data).sub) IN
         IF user = None
         THEN Outcome(FALSE, "Usuario no encontrado", None, U, R, A, <<>>)
         ELSE Outcome(TRUE, "Token valido", token_data, U, R, A, <<>>)

AuthService_verify_token(U, R, A, t, token) ==
    LET token_data == verify_token(token, "access", t) IN
    IF token_data = None
    THEN Outcome(FALSE, "Token invalido o expirado", None, U, R, A, <<>>)
    ELSE LET user == UserRepository_get_user_by_id(U, The(token_data).sub) IN
         IF user = None
         THEN Outcome(FALSE, "Usuario no encontrado", None, U, R, A, <<>>)
         ELSE Outcome(TRUE, "Token valido", token_data, U, R, A, <<>>)

-----------------------------------------------------------------------------
(* The callers: what a request can carry. *)

\* Access tokens the codec can have issued so far for the users that exist.
AccessTokens ==
    { create_access_token([sub |-> u.id, cedula |-> u.cedula, role |-> u.role],
                          ACCESS_TOKEN_EXPIRE_MINUTES, i) : u \in users, i \in 0..now }

StoredTokens == { r.token : r \in refresh_tokens }

\* Issued tokens of both kinds, tampered copies of the stored ones and a
\* string that is no token.
PresentedTokens ==
    AccessTokens \cup StoredTokens \cup { Tamper(tok) : tok \in StoredTokens }
      \cup {Malformed}

\* The random payload of a refresh token.  Only equality of token strings is
\* ever observed, so a draw is one of the values the tokens minted at this
\* instant already carry, or the first value none of them carries.
Draws ==
    LET used == { r.token.payload.jti :
                    r \in { q \in refresh_tokens : q.token.payload.iat = now } }
    IN  { j \in Nonces : j <= Cardinality(used) + 1 }

NoCall ==
    [op |-> "none", cedula |-> "", password |-> "", token |-> None,
     refresh_token |-> None, success |-> FALSE, message |-> "",
     payload |-> None, calls |-> <<>>]

Idle == resp.op = "none"

\* A request handler that is not running.
NoRequest ==
    [pc |-> "idle", refresh_token |-> None, token_data |-> None, user |-> None,
     new_access_token |-> None, new_refresh_token |-> None, new_token_data |-> None,
     success |-> FALSE, message |-> "", payload |-> None]

Completed(op, cedula, password, token, refresh_token, out) ==
    [op |-> op, cedula |-> cedula, password |-> password,
     token |-> token, refresh_token |-> refresh_token,
     success |-> out.success, message |-> out.message, payload |-> out.payload,
     calls |-> out.calls]

Commit(out) ==
    /\ users' = out.users
    /\ refresh_tokens' = out.refresh_tokens
    /\ audit_logs' = out.audit_logs

-----------------------------------------------------------------------------
(* The state after construction: empty tables, no call made. *)

Init ==
    /\ users = {}
    /\ refresh_tokens = {}
    /\ audit_logs = <<>>
    /\ now = 0
    /\ resp = NoCall
    /\ rotated = {}
    /\ req = [p \in Procs |-> NoRequest]

(* One request at a time: a call runs to its end, its outcome is returned,  *)
(* and the next call starts.                                               *)

Register(cedula, password) ==
    LET out == AuthService_register_user(users, refresh_tokens, audit_logs, cedula, password) IN
    /\ Idle
    /\ Commit(out)
    /\ resp' = Completed("register", cedula, password, None, None, out)
    /\ UNCHANGED <<now, rotated, req>>

Login(cedula, password, jti) ==
    LET out == AuthService_login_user(users, refresh_tokens, audit_logs, now,
                                      cedula, password, IpAddress, jti) IN
    /\ Idle
    /\ Cardinality(out.refresh_tokens) <= MaxRows
    /\ Commit(out)
    /\ resp' = Completed("login", cedula, password, None, None, out)
    /\ UNCHANGED <<now, rotated, req>>

Refresh(token, jti) ==
    LET out == AuthService_refresh_access_token(users, refresh_tokens, audit_logs, now,
                                                token, IpAddress, jti) IN
    /\ Idle
    /\ Cardinality(out.refresh_tokens) <= MaxRows
    /\ Commit(out)
    /\ resp' = Completed("refresh", "", "", None, Some(token), out)
    /\ rotated' = IF out.success THEN rotated \cup {token} ELSE rotated
    /\ UNCHANGED <<now, req>>

Logout(access_token, refresh_token) ==
    LET out == AuthService_logout_user(users, refresh_tokens, audit_logs, now,
                                       access_token, refresh_token) IN
    /\ Idle
    /\ Commit(out)
    /\ resp' = Completed("logout", "", "", Some(access_token), refresh_token, out)
    /\ UNCHANGED <<now, rotated, req>>

Verify(token) ==
    LET out == AuthService_verify_token(users, refresh_tokens, audit_logs, now, token) IN
    /\ Idle
    /\ Commit(out)
    /\ resp' = Completed("verify", "", "", Some(token), None, out)
    /\ UNCHANGED <<now, rotated, req>>

\* The outcome reaches the caller.
Respond ==
    /\ ~Idle
    /\ resp' = NoCall
    /\ UNCHANGED <<users, refresh_tokens, audit_logs, now, rotated, req>>

Tick ==
    /\ Idle
    /\ now < MaxTime
    /\ now' = now + 1
    /\ UNCHANGED <<users, refresh_tokens, audit_logs, resp, rotated, req>>

Next ==
    \/ \E cedula \in Cedulas, password \in RegisterPasswords : Register(cedula, password)
    \/ \E cedula \in Cedulas, password \in Passwords, jti \in Draws :
          Login(cedula, password, jti)
    \/ \E token \in PresentedTokens, jti \in Draws : Refresh(token, jti)
    \/ \E access_token \in PresentedTokens,
          refresh_token \in {None} \cup { Some(tok) : tok \in StoredTokens \cup {Malformed} } :
          Logout(access_token, refresh_token)
    \/ \E token \in PresentedTokens : Verify(token)
    \/ Respond
    \/ Tick

Spec == Init /\ [][Next]_vars

-----------------------------------------------------------------------------
(* Simultaneous calls: each request runs AuthService.refresh_access_token  *)
(* in its own session, and the calls of other requests can fall between    *)
(* any two of its store round-trips (section 5: the store accesses are     *)
(* the suspension points; every repository write commits).                 *)

Returned(p, success, message, payload) ==
    req' = [req EXCEPT ![p] = [@ EXCEPT !.pc = "done", !.success = success,
                                        !.message = message, !.payload = payload]]

\* verify_token(refresh_token, "refresh"): no suspension before the first query.
RefreshBegin(p, token) ==
    /\ req[p].pc = "idle"
    /\ LET token_data == verify_token(token, "refresh", now) IN
       IF token_data = None
       THEN req' = [req EXCEPT ![p] = [NoRequest EXCEPT !.pc = "done",
                                          !.refresh_token = Some(token),
                                          !.message = "Refresh token invalido o expirado"]]
       ELSE req' = [req EXCEPT ![p] = [NoRequest EXCEPT !.pc = "get_refresh_token",
                                          !.refresh_token = Some(token),
                                          !.token_data = token_data]]
    /\ UNCHANGED <<users, refresh_tokens, audit_logs, now, resp, rotated>>

\* stored_token = self.refresh_repo.get_refresh_token(refresh_token)
RefreshLookup(p) ==
    /\ req[p].pc = "get_refresh_token"
    /\ LET stored_token == RefreshTokenRepository_get_refresh_token(
                               refresh_tokens, The(req[p].refresh_token), now) IN
       IF stored_token = None
       THEN Returned(p, FALSE, "Refresh token no encontrado", None)
       ELSE req' = [req EXCEPT ![p].pc = "get_user_by_id"]
    /\ UNCHANGED <<users, refresh_tokens, audit_logs, now, resp, rotated>>

\* user = self.user_repo.get_user_by_id(...), then the new pair is minted.
RefreshGetUser(p, jti) ==
    /\ req[p].pc = "get_user_by_id"
    /\ LET user == UserRepository_get_user_by_id(users, The(req[p].token_data).sub) IN
       IF user = None
       THEN Returned(p, FALSE, "Usuario no encontrado", None)
       ELSE LET u == The(user) IN
            req' = [req EXCEPT ![p] = [@ EXCEPT
                      !.pc = "revoke_refresh_token",
                      !.user = user,
                      !.new_access_token = Some(create_access_token(
                          [sub |-> u.id, cedula |-> u.cedula, role |-> u.role],
                          ACCESS_TOKEN_EXPIRE_MINUTES, now)),
                      !.new_refresh_token = Some(create_refresh_token([sub |-> u.id], now, jti))]]
    /\ UNCHANGED <<users, refresh_tokens, audit_logs, now, resp, rotated>>

\* A rotation that does not commit the revocation before the insert.
RefreshRevokeDeferred(p) ==
    /\ req[p].pc = "revoke_refresh_token"
    /\ refresh_tokens' = refresh_tokens
    /\ req' = [req EXCEPT ![p] = [@ EXCEPT
                  !.pc = "create_refresh_token",
                  !.new_token_data = Some([user_id |-> The(req[p].user).id,
                                           token |-> The(req[p].new_refresh_token),
                                           expires_at |-> now + REFRESH_TOKEN_EXPIRE_DAYS,
                                           created_by_ip |-> IpAddress])]]
    /\ UNCHANGED <<users, audit_logs, now, resp, rotated>>

\* self.refresh_repo.revoke_refresh_token(refresh_token), then token_data is built.
RefreshRevoke(p) ==
    /\ req[p].pc = "revoke_refresh_token"
    /\ refresh_tokens' = RefreshTokenRepository_revoke_refresh_token(
                             refresh_tokens, The(req[p].refresh_token)).table
    /\ req' = [req EXCEPT ![p] = [@ EXCEPT
                  !.pc = "create_refresh_token",
                  !.new_token_data = Some([user_id |-> The(req[p].user).id,
                                           token |-> The(req[p].new_refresh_token),
                                           expires_at |-> now + REFRESH_TOKEN_EXPIRE_DAYS,
                                           created_by_ip |-> IpAddress])]]
    /\ UNCHANGED <<users, audit_logs, now, resp, rotated>>

\* self.refresh_repo.create_refresh_token(token_data) and the return; an
\* exception of the insert is caught by the handler.
RefreshPersist(p) ==
    /\ req[p].pc = "create_refresh_token"
    /\ LET created == RefreshTokenRepository_create_refresh_token(
                          refresh_tokens, The(req[p].new_token_data)) IN
       /\ Cardinality(created.table) <= MaxRows
       /\ refresh_tokens' = created.table
       /\ IF created.raised
          THEN Returned(p, FALSE, "Error renovando token: IntegrityError", None)
          ELSE Returned(p, TRUE, "Token renovado exitosamente",
                        Some(TokenResponse(The(req[p].new_access_token),
                                           The(req[p].new_refresh_token))))
       /\ rotated' = IF created.raised THEN rotated ELSE rotated \cup req[p].refresh_token
    /\ UNCHANGED <<users, audit_logs, now, resp>>

\* The outcome reaches the caller and the handler is free again.
RefreshReturn(p) ==
    /\ req[p].pc = "done"
    /\ req' = [req EXCEPT ![p] = NoRequest]
    /\ UNCHANGED <<users, refresh_tokens, audit_logs, now, resp, rotated>>

\* One account is enough for two calls to meet on one refresh token.
NextConcurrent ==
    \/ \E password \in RegisterPasswords : Register(ConcurrentCedula, password)
    \/ \E password \in RegisterPasswords, jti \in Draws :
          Login(ConcurrentCedula, password, jti)
    \/ Respond
    \/ Tick
    \/ \E p \in Procs, token \in StoredTokens : RefreshBegin(p, token)
    \/ \E p \in Procs : RefreshLookup(p)
    \/ \E p \in Procs, jti \in Draws : RefreshGetUser(p, jti)
    \/ \E p \in Procs : RefreshRevoke(p)
    \/ \E p \in Procs : RefreshPersist(p)
    \/ \E p \in Procs : RefreshReturn(p)

SpecConcurrent == Init /\ [][NextConcurrent]_vars

-----------------------------------------------------------------------------
(* Properties *)

\* This step is a call of op: it starts with no call being answered and
\* ends with the outcome of op being returned.
CallOf(op) == Idle /\ resp'.op = op

RowsOf(R, token) == { r \in R : r.token = token }

IsRevoked(R, token) == \E r \in R : r.token = token /\ r.is_revoked

IsActive(R, token, t) == \E r \in R : r.token = token /\ ~r.is_revoked /\ r.expires_at > t

NotFound == "Refresh token no encontrado"
InvalidOrExpired == "Refresh token invalido o expirado"

\* C1: two refresh calls on the same refresh token whose store steps
\* interleave never both return a new token pair.
C1_ConcurrentRefreshOnce ==
    \A p, q \in Procs :
        (/\ p # q
         /\ req[p].pc = "done" /\ req[q].pc = "done"
         /\ req[p].refresh_token # None
         /\ req[p].refresh_token = req[q].refresh_token)
        => ~(req[p].success /\ req[q].success)

\* C2 as claimed: once refresh(t) has returned success, every later
\* refresh(t) fails with the token-not-found outcome.
C2_RotatedThenNotFound ==
    [][ (CallOf("refresh") /\ resp'.refresh_token \subseteq rotated)
            => (/\ ~resp'.success
                /\ resp'.payload = None
                /\ resp'.message = NotFound) ]_vars

\* C2 amended: once refresh(t) has returned success, every later refresh(t)
\* fails and returns no token pair; the outcome is token-not-found while the
\* clock has not passed the expiry embedded in t, and the invalid-or-expired
\* outcome of the codec afterwards.
C2_RotatedThenRejected ==
    [][ (CallOf("refresh") /\ resp'.refresh_token \subseteq rotated)
            => (/\ ~resp'.success
                /\ resp'.payload = None
                /\ resp'.message = IF now <= The(resp'.refresh_token).payload.exp
                                   THEN NotFound ELSE InvalidOrExpired) ]_vars

\* A refresh token that was rotated is presented again and is not found.
C2_Witness ==
    /\ resp.op = "refresh"
    /\ resp.refresh_token \subseteq rotated
    /\ ~resp.success
    /\ resp.message = NotFound

\* C3: a successful refresh(t) leaves t's row revoked and adds exactly one
\* row, unrevoked, owned by the user that owns t's row, holding the refresh
\* token returned to the caller; every other row is as it was.
C3_StrictRotation ==
    [][ (CallOf("refresh") /\ resp'.success)
            => LET t == The(resp'.refresh_token)
                   new == The(resp'.payload).refresh_token
                   old == RowsOf(refresh_tokens, t)
                   added == { r \in refresh_tokens' : r.token \notin StoredTokens }
               IN  /\ Cardinality(old) = 1
                   /\ \A r \in old : [r EXCEPT !.is_revoked = TRUE] \in refresh_tokens'
                   /\ Cardinality(added) = 1
                   /\ \A n \in added : /\ n.token = new
                                       /\ ~n.is_revoked
                                       /\ \A r \in old : n.user_id = r.user_id
                   /\ refresh_tokens' =
                        (refresh_tokens \ old)
                          \cup { [r EXCEPT !.is_revoked = TRUE] : r \in old } \cup added ]_vars

\* A rotation has succeeded while the store held a row of another token.
C3_Witness ==
    /\ resp.op = "refresh"
    /\ resp.success
    /\ IsRevoked(refresh_tokens, The(resp.refresh_token))
    /\ \E r \in refresh_tokens :
          /\ r.token # The(resp.refresh_token)
          /\ r.token # The(resp.payload).refresh_token
          /\ ~r.is_revoked

\* A login whose cedula is registered and whose password is the right one.
CorrectLogin == CallOf("login")
                  /\ UserRepository_authenticate_user(users, resp'.cedula, resp'.password) # None

\* The verify call made on the access token that the login of this step
\* returned, in the state the login leaves, succeeds with the user's id as
\* subject.
VerifiesAfterLogin ==
    LET user == The(UserRepository_get_user_by_cedula(users, resp'.cedula))
        v == AuthService_verify_token(users', refresh_tokens', audit_logs', now',
                                      The(resp'.payload).access_token)
    IN  /\ v.success
        /\ v.payload # None
        /\ The(v.payload).sub = user.id

ExpiredRefused ==
    /\ (resp.op = "verify" /\ now > The(resp.token).payload.exp) => ~resp.success
    /\ (resp.op = "refresh"
          /\ \/ now > The(resp.refresh_token).payload.exp
             \/ \E r \in RowsOf(refresh_tokens, The(resp.refresh_token)) : r.expires_at <= now)
       => (~resp.success /\ resp.payload = None)

\* C5: a verify call on a token whose embedded expiry the clock has passed
\* fails; a refresh call on a token whose embedded expiry the clock has
\* passed, or whose row's expires_at the clock has reached, fails; and the
\* clock never goes back, so the token is never accepted again.
C5_ExpiredNeverAccepted == [][ now' >= now /\ ExpiredRefused' ]_vars

\* An unrevoked, genuinely signed refresh token is presented once the clock
\* has reached its row's expires_at, and is refused.
C5_Witness ==
    /\ resp.op = "refresh"
    /\ ~resp.success
    /\ The(resp.refresh_token).sig = SECRET_KEY
    /\ \E r \in RowsOf(refresh_tokens, The(resp.refresh_token)) :
          ~r.is_revoked /\ r.expires_at <= now

\* C6: a logout that succeeds with a refresh token r that has a row leaves
\* r's row revoked; a revoked row stays as it is through every operation;
\* and a refresh of a token whose row is revoked fails.  So every refresh(r)
\* after the logout fails.
C6_LogoutRevokes ==
    [][ /\ (CallOf("logout") /\ resp'.success /\ resp'.refresh_token # None
              /\ RowsOf(refresh_tokens, The(resp'.refresh_token)) # {})
           => (/\ RowsOf(refresh_tokens', The(resp'.refresh_token)) # {}
               /\ \A r \in RowsOf(refresh_tokens', The(resp'.refresh_token)) : r.is_revoked)
        /\ \A r \in refresh_tokens :
              r.is_revoked => RowsOf(refresh_tokens', r.token) = {r}
        /\ (CallOf("refresh") /\ IsRevoked(refresh_tokens, The(resp'.refresh_token)))
           => (~resp'.success /\ resp'.payload = None) ]_vars

\* A logout has succeeded with a refresh token that was never rotated and
\* whose row is now revoked.
C6_Witness ==
    /\ resp.op = "logout"
    /\ resp.success
    /\ resp.refresh_token # None
    /\ The(resp.refresh_token) \notin rotated
    /\ IsRevoked(refresh_tokens, The(resp.refresh_token))

\* C7: a logout whose access token the codec does not accept as kind access
\* returns failure, leaves every refresh-token row as it was (the supplied
\* one included), and makes no log_action call.
C7_LogoutNeedsAccessToken ==
    [][ (CallOf("logout") /\ verify_token(The(resp'.token), "access", now) = None)
            => (/\ ~resp'.success
                /\ refresh_tokens' = refresh_tokens
                /\ resp'.calls = <<>>
                /\ audit_logs' = audit_logs) ]_vars

\* A logout was refused while the refresh token it supplied is active.
C7_Witness ==
    /\ resp.op = "logout"
    /\ ~resp.success
    /\ resp.refresh_token # None
    /\ IsActive(refresh_tokens, The(resp.refresh_token), now)

\* C8: a logout leaves every row other than the one of the supplied refresh
\* token as it was and adds no row; a refresh of any other token has the
\* same outcome after the logout as before it; a logout with no refresh token
\* leaves the table as it was.
C8_LogoutFrame ==
    [][ CallOf("logout") =>
          /\ \A r \in refresh_tokens :
                (resp'.refresh_token = None \/ r.token # The(resp'.refresh_token))
                => /\ r \in refresh_tokens'
                   /\ \A jti \in Nonces :
                        LET before == AuthService_refresh_access_token(
                                          users, refresh_tokens, audit_logs, now,
                                          r.token, IpAddress, jti)
                            after == AuthService_refresh_access_token(
                                          users', refresh_tokens', audit_logs', now',
                                          r.token, IpAddress, jti)
                        IN  /\ after.success = before.success
                            /\ after.message = before.message
                            /\ after.payload = before.payload
          /\ { r.token : r \in refresh_tokens' } = StoredTokens
          /\ Cardinality(refresh_tokens') = Cardinality(refresh_tokens)
          /\ resp'.refresh_token = None => refresh_tokens' = refresh_tokens ]_vars

\* A logout has revoked the supplied refresh token while the same user holds
\* another refresh token, which is still active.
C8_Witness ==
    /\ resp.op = "logout"
    /\ resp.success
    /\ resp.refresh_token # None
    /\ \E r \in refresh_tokens, o \in refresh_tokens :
          /\ r.token = The(resp.refresh_token)
          /\ r.is_revoked
          /\ o.user_id = r.user_id
          /\ o.token # r.token
          /\ ~o.is_revoked /\ o.expires_at > now

C10_LoginFailuresAlike ==
    [][ (CallOf("login")
           /\ UserRepository_authenticate_user(users, resp'.cedula, resp'.password) = None)
        => /\ ~resp'.success
           /\ resp'.payload = None
           /\ users' = users /\ refresh_tokens' = refresh_tokens
           /\ \A c \in Cedulas, pw \in Passwords, jti \in Nonces :
                UserRepository_authenticate_user(users, c, pw) = None
                => LET other == AuthService_login_user(users, refresh_tokens, audit_logs,
                                                       now, c, pw, IpAddress, jti)
                   IN  /\ other.success = resp'.success
                       /\ other.message = resp'.message
                       /\ other.payload = resp'.payload
                       /\ other.users = users'
                       /\ other.refresh_tokens = refresh_tokens'
                       /\ other.audit_logs = audit_logs'
                       /\ Len(other.calls) = Len(resp'.calls)
                       /\ \A i \in 1..Len(other.calls) :
                             /\ other.calls[i].user_id = resp'.calls[i].user_id
                             /\ other.calls[i].action = resp'.calls[i].action ]_vars

\* A login with a registered cedula and a wrong password has failed while
\* another cedula is not registered.
C10_Witness ==
    /\ resp.op = "login"
    /\ ~resp.success
    /\ UserRepository_get_user_by_cedula(users, resp.cedula) # None
    /\ UserRepository_authenticate_user(users, resp.cedula, resp.password) = None
    /\ \E c \in Cedulas : UserRepository_get_user_by_cedula(users, c) = None

\* The audit log after the step is the audit log before it with one entry
\* appended, of this action and bound to this user id.
Appended(action, user_id) ==
    /\ Len(audit_logs') = Len(audit_logs) + 1
    /\ SubSeq(audit_logs', 1, Len(audit_logs)) = audit_logs
    /\ audit_logs'[Len(audit_logs')].action = action
    /\ audit_logs'[Len(audit_logs')].user_id = user_id

\* C11: every failed login, unknown cedula or wrong password, appends one
\* audit entry with action login_failed and no user id.
C11_FailedLoginAudited ==
    [][ (CallOf("login")
           /\ UserRepository_authenticate_user(users, resp'.cedula, resp'.password) = None)
        => Appended("login_failed", None) ]_vars

\* C12: every successful login appends one audit entry with action login
\* bound to the id of the user that logged in, every successful logout
\* appends one with action logout bound to the subject of the access token,
\* and no step removes or changes an entry of the audit log.
C12_LoginLogoutAudited ==
    [][ /\ (CallOf("login") /\ resp'.success)
           => Appended("login",
                       Some(The(UserRepository_get_user_by_cedula(users, resp'.cedula)).id))
        /\ (CallOf("logout") /\ resp'.success)
           => Appended("logout", Some(The(resp'.token).payload.sub))
        /\ Len(audit_logs') >= Len(audit_logs)
        /\ SubSeq(audit_logs', 1, Len(audit_logs)) = audit_logs ]_vars

\* C13: in every login, logout and register call that reaches log_action the
\* audit write raises, and the call still returns the outcome of the
\* operation itself and leaves the users and refresh_tokens tables the
\* operation itself leaves: a failed login its credentials failure, a login
\* its token pair with the refresh token persisted and last_login set, a
\* logout its success with the supplied refresh token revoked, a register
\* its success with the user created.
C13_AuditFailureSwallowed ==
    [][ (Idle /\ resp'.op \in {"login", "logout", "register"} /\ resp'.calls # <<>>)
        => /\ AuditRepository_init(None).raised
           /\ audit_logs' = audit_logs
           /\ resp'.op = "login" =>
                LET user == UserRepository_authenticate_user(users, resp'.cedula,
                                                             resp'.password)
                IN  IF user = None
                    THEN /\ ~resp'.success
                         /\ resp'.message = "Cedula o contrasena incorrecta"
                         /\ users' = users /\ refresh_tokens' = refresh_tokens
                    ELSE /\ resp'.success
                         /\ resp'.message = "Login exitoso"
                         /\ resp'.payload # None
                         /\ users' = UserRepository_update_last_login(users, The(user).id)
                         /\ refresh_tokens' =
                              refresh_tokens \cup
                                {[user_id |-> The(user).id,
                                  token |-> The(resp'.payload).refresh_token,
                                  expires_at |-> now + REFRESH_TOKEN_EXPIRE_DAYS,
                                  is_revoked |-> FALSE, created_by_ip |-> IpAddress]}
                         /\ The(resp'.payload).refresh_token \notin StoredTokens
           /\ resp'.op = "logout" =>
                /\ resp'.success
                /\ resp'.message = "Logout exitoso"
                /\ users' = users
                /\ refresh_tokens' =
                     IF resp'.refresh_token = None THEN refresh_tokens
                     ELSE { IF r.token = The(resp'.refresh_token)
                            THEN [r EXCEPT !.is_revoked = TRUE] ELSE r : r \in refresh_tokens }
           /\ resp'.op = "register" =>
                /\ resp'.success
                /\ resp'.message = "Usuario registrado exitosamente"
                /\ refresh_tokens' = refresh_tokens
                /\ Cardinality(users') = Cardinality(users) + 1
                /\ \E u \in users' \ users :
                      u.cedula = resp'.cedula /\ resp'.payload = Some([user_id |-> u.id]) ]_vars

\* A login has returned its token pair and persisted the refresh token while
\* the audit write it made left no entry.
C13_Witness ==
    /\ resp.op = "login"
    /\ resp.success
    /\ resp.calls # <<>>
    /\ audit_logs = <<>>
    /\ The(resp.payload).refresh_token \in StoredTokens

-----------------------------------------------------------------------------
(* Store failures.  A repository call can raise (the database is           *)
(* unavailable); the call that raises changes nothing.  fault is the        *)
(* position, among the repository calls the operation makes, of the call   *)
(* that raises; 0 and positions the operation does not reach raise nothing. *)

Faults == 0..4

\* What leaves the method: the outcome tuple or an exception (raised), the
\* tables, whether a repository call raised, and the repository calls made.
Completes(out, steps) ==
    [raised |-> FALSE, faulted |-> FALSE, success |-> out.success,
     message |-> out.message, payload |-> out.payload, users |-> out.users,
     refresh_tokens |-> out.refresh_tokens, audit_logs |-> out.audit_logs,
     calls |-> out.calls, steps |-> steps]

\* An except clause that lets the exception of the store leave the method.
Uncaught(message, U, R, A, steps) ==
    [raised |-> TRUE, faulted |-> TRUE, success |-> FALSE, message |-> message,
     payload |-> None, users |-> U, refresh_tokens |-> R, audit_logs |-> A,
     calls |-> <<>>, steps |-> steps]

\* except Exception as e: return False, f"Error ...: {str(e)}", None
Caught(message, U, R, A, steps) ==
    [raised |-> FALSE, faulted |-> TRUE, success |-> FALSE, message |-> message,
     payload |-> None, users |-> U, refresh_tokens |-> R, audit_logs |-> A,
     calls |-> <<>>, steps |-> steps]

AuthService_login_user_faulty(U, R, A, t, cedula, password, ip_address, jti, fault) ==
    LET out == AuthService_login_user(U, R, A, t, cedula, password, ip_address, jti)
        user == UserRepository_authenticate_user(U, cedula, password)
        refresh_token == create_refresh_token([sub |-> The(user).id], t, jti)
        token_data == [user_id |-> The(user).id, token |-> refresh_token,
                       expires_at |-> t + REFRESH_TOKEN_EXPIRE_DAYS,
                       created_by_ip |-> ip_address]
        created == RefreshTokenRepository_create_refresh_token(R, token_data)
        message == "Error en login: OperationalError"
    IN  IF fault = 1
        THEN Caught(message, U, R, A, <<"authenticate_user">>)
        ELSE IF user = None
        THEN Completes(out, <<"authenticate_user">>)
        ELSE IF fault = 2
        THEN Caught(message, U, R, A, <<"authenticate_user", "create_refresh_token">>)
        ELSE IF created.raised
        THEN Completes(out, <<"authenticate_user", "create_refresh_token">>)
        ELSE IF fault = 3
        THEN Caught(message, U, created.table, A,
                    <<"authenticate_user", "create_refresh_token", "update_last_login">>)
        ELSE Completes(out,
                    <<"authenticate_user", "create_refresh_token", "update_last_login">>)

AuthService_refresh_access_token_faulty(U, R, A, t, refresh_token, ip_address, jti, fault) ==
    LET out == AuthService_refresh_access_token(U, R, A, t, refresh_token, ip_address, jti)
        token_data == verify_token(refresh_token, "refresh", t)
        stored_token == RefreshTokenRepository_get_refresh_token(R, refresh_token, t)
        user == UserRepository_get_user_by_id(U, The(token_data).sub)
        revoked == RefreshTokenRepository_revoke_refresh_token(R, refresh_token)
        message == "Error renovando token: OperationalError"
    IN  IF token_data = None
        THEN Completes(out, <<>>)
        ELSE IF fault = 1
        THEN Caught(message, U, R, A, <<"get_refresh_token">>)
        ELSE IF stored_token = None
        THEN Completes(out, <<"get_refresh_token">>)
        ELSE IF fault = 2
        THEN Caught(message, U, R, A, <<"get_refresh_token", "get_user_by_id">>)
        ELSE IF user = None
        THEN Completes(out, <<"get_refresh_token", "get_user_by_id">>)
        ELSE IF fault = 3
        THEN Caught(message, U, R, A,
                    <<"get_refresh_token", "get_user_by_id", "revoke_refresh_token">>)
        ELSE IF fault = 4
        THEN Caught(message, U, revoked.table, A,
                    <<"get_refresh_token", "get_user_by_id", "revoke_refresh_token",
                      "create_refresh_token">>)
        ELSE Completes(out,
                    <<"get_refresh_token", "get_user_by_id", "revoke_refresh_token",
                      "create_refresh_token">>)

AuthService_logout_user_faulty(U, R, A, t, access_token, refresh_token, fault) ==
    LET out == AuthService_logout_user(U, R, A, t, access_token, refresh_token)
        token_data == verify_token(access_token, "access", t)
    IN  IF token_data = None \/ refresh_token = None
        THEN Completes(out, <<>>)
        ELSE IF fault = 1
        THEN Caught("Error en logout: OperationalError", U, R, A, <<"revoke_refresh_token">>)
        ELSE Completes(out, <<"revoke_refresh_token">>)

AuthService_verify_token_faulty(U, R, A, t, token, fault) ==
    LET out == AuthService_verify_token(U, R, A, t, token)
        token_data == verify_token(token, "access", t)
    IN  IF token_data = None
        THEN Completes(out, <<>>)
        ELSE IF fault = 1
        THEN Caught("Error verificando token: OperationalError", U, R, A, <<"get_user_by_id">>)
        ELSE Completes(out, <<"get_user_by_id">>)

\* The call being answered, with what left the method.
CompletedFaulty(op, cedula, password, token, refresh_token, out) ==
    [op |-> op, cedula |-> cedula, password |-> password,
     token |-> token, refresh_token |-> refresh_token,
     success |-> out.success, message |-> out.message, payload |-> out.payload,
     calls |-> out.calls, raised |-> out.raised, faulted |-> out.faulted,
     steps |-> out.steps]

LoginFaulty(cedula, password, jti, fault) ==
    LET out == AuthService_login_user_faulty(users, refresh_tokens, audit_logs, now,
                                             cedula, password, IpAddress, jti, fault) IN
    /\ Idle
    /\ Cardinality(out.refresh_tokens) <= MaxRows
    /\ Commit(out)
    /\ resp' = CompletedFaulty("login", cedula, password, None, None, out)
    /\ UNCHANGED <<now, rotated, req>>

RefreshFaulty(token, jti, fault) ==
    LET out == AuthService_refresh_access_token_faulty(users, refresh_tokens, audit_logs,
                                                       now, token, IpAddress, jti, fault) IN
    /\ Idle
    /\ Cardinality(out.refresh_tokens) <= MaxRows
    /\ Commit(out)
    /\ resp' = CompletedFaulty("refresh", "", "", None, Some(token), out)
    /\ rotated' = IF out.success THEN rotated \cup {token} ELSE rotated
    /\ UNCHANGED <<now, req>>

LogoutFaulty(access_token, refresh_token, fault) ==
    LET out == AuthService_logout_user_faulty(users, refresh_tokens, audit_logs, now,
                                              access_token, refresh_token, fault) IN
    /\ Idle
    /\ Commit(out)
    /\ resp' = CompletedFaulty("logout", "", "", Some(access_token), refresh_token, out)
    /\ UNCHANGED <<now, rotated, req>>

VerifyFaulty(token, fault) ==
    LET out == AuthService_verify_token_faulty(users, refresh_tokens, audit_logs, now,
                                               token, fault) IN
    /\ Idle
    /\ Commit(out)
    /\ resp' = CompletedFaulty("verify", "", "", Some(token), None, out)
    /\ UNCHANGED <<now, rotated, req>>

NextFault ==
    \/ \E password \in RegisterPasswords : Register(ConcurrentCedula, password)
    \/ \E password \in Passwords, jti \in Draws, fault \in Faults :
          LoginFaulty(ConcurrentCedula, password, jti, fault)
    \/ \E token \in PresentedTokens, jti \in Draws, fault \in Faults :
          RefreshFaulty(token, jti, fault)
    \/ \E access_token \in PresentedTokens, fault \in Faults,
          refresh_token \in {None} \cup { Some(tok) : tok \in StoredTokens } :
          LogoutFaulty(access_token, refresh_token, fault)
    \/ \E token \in PresentedTokens, fault \in Faults : VerifyFaulty(token, fault)
    \/ Respond
    \/ Tick

SpecFault == Init /\ [][NextFault]_vars

\* No repository call is made twice.
NoRetry(steps) == \A i, j \in 1..Len(steps) : steps[i] = steps[j] => i = j

\* C14: whatever repository call raises, login, refresh, logout and verify
\* let no exception leave the method; a call in which a repository call
\* raised, and every other failed call, ends with success false and no
\* payload; and no call makes a repository call twice.
C14_NeverRaise ==
    [][ (Idle /\ resp'.op \in {"login", "refresh", "logout", "verify"})
        => /\ ~resp'.raised
           /\ resp'.faulted => ~resp'.success
           /\ ~resp'.success => resp'.payload = None
           /\ NoRetry(resp'.steps) ]_vars

\* The insert of the new refresh token raised in a refresh that had passed
\* every check, and the call returned its failure outcome.
C14_Witness ==
    /\ resp.op = "refresh"
    /\ resp.faulted
    /\ ~resp.raised
    /\ ~resp.success
    /\ Len(resp.steps) = 4

-----------------------------------------------------------------------------
(* The Refresh Token Store on its own: any caller, any token string, any   *)
(* order of create_refresh_token, get_refresh_token and                    *)
(* revoke_refresh_token.  resp holds the last call, its result and the     *)
(* call before it.                                                         *)

UserIds == {1, 2}

\* Token strings a caller can pass.
TokenStrings == { create_refresh_token([sub |-> 1], 0, jti) : jti \in Nonces }

StoreCall(op, token, result, row) ==
    [op |-> op, token |-> token, result |-> result, row |-> row,
     prev_op |-> resp.op, prev_token |-> resp.token,
     prev_result |-> IF resp.op = "none" THEN FALSE ELSE resp.result]

StoreCreate(user_id, token) ==
    LET token_data == [user_id |-> user_id, token |-> token,
                       expires_at |-> now + REFRESH_TOKEN_EXPIRE_DAYS,
                       created_by_ip |-> IpAddress]
        created == RefreshTokenRepository_create_refresh_token(refresh_tokens, token_data)
    IN  /\ Cardinality(created.table) <= MaxRows
        /\ refresh_tokens' = created.table
        /\ resp' = StoreCall("create_refresh_token", Some(token), ~created.raised, None)
        /\ UNCHANGED <<users, audit_logs, now, rotated, req>>

StoreGet(token) ==
    /\ resp' = StoreCall("get_refresh_token", Some(token), TRUE,
                         RefreshTokenRepository_get_refresh_token(refresh_tokens, token, now))
    /\ UNCHANGED <<users, refresh_tokens, audit_logs, now, rotated, req>>

StoreRevoke(token) ==
    LET revoked == RefreshTokenRepository_revoke_refresh_token(refresh_tokens, token)
    IN  /\ refresh_tokens' = revoked.table
        /\ resp' = StoreCall("revoke_refresh_token", Some(token), revoked.result, None)
        /\ UNCHANGED <<users, audit_logs, now, rotated, req>>

StoreTick ==
    /\ now < MaxTime
    /\ now' = now + 1
    /\ UNCHANGED <<users, refresh_tokens, audit_logs, resp, rotated, req>>

NextStore ==
    \/ \E user_id \in UserIds, token \in TokenStrings : StoreCreate(user_id, token)
    \/ \E token \in TokenStrings : StoreGet(token)
    \/ \E token \in TokenStrings : StoreRevoke(token)
    \/ StoreTick

SpecStore == Init /\ [][NextStore]_vars

\* This step is a call of op on the store.
StoreCallOf(op) == resp'.op = op /\ resp' # resp

\* The call being answered is the second of two revocations of one token in
\* a row, and the first returned true.
SecondRevoke ==
    /\ resp.op = "revoke_refresh_token"
    /\ resp.prev_op = "revoke_refresh_token"
    /\ resp.prev_token = resp.token
    /\ resp.prev_result

\* C15 as claimed: of two revocations of a stored token the first returns
\* true and the second false, and the token is not active after either.
C15_RevokeTrueThenFalse ==
    /\ (resp.op = "revoke_refresh_token" /\ resp.result)
       => RefreshTokenRepository_get_refresh_token(refresh_tokens, The(resp.token), now) = None
    /\ SecondRevoke
       => /\ resp.result = FALSE
          /\ RefreshTokenRepository_get_refresh_token(refresh_tokens, The(resp.token), now)
               = None

\* C15 amended: of two revocations of a stored token the first returns true
\* and the second returns true as well, and the token is not active after
\* either.
C15_RevokeTrueBothTimes ==
    /\ (resp.op = "revoke_refresh_token" /\ RowsOf(refresh_tokens, The(resp.token)) # {})
       => resp.result
    /\ (resp.op = "revoke_refresh_token" /\ resp.result)
       => RefreshTokenRepository_get_refresh_token(refresh_tokens, The(resp.token), now) = None
    /\ SecondRevoke
       => /\ resp.result = TRUE
          /\ RefreshTokenRepository_get_refresh_token(refresh_tokens, The(resp.token), now)
               = None

\* A stored token has been revoked twice in a row.
C15_Witness ==
    /\ SecondRevoke
    /\ IsRevoked(refresh_tokens, The(resp.token))

\* C16: a revocation returns true exactly when the table holds a row with
\* the token string, revoked or not; when it returns true the row is revoked
\* afterwards and every other row is as it was; when it returns false the
\* table is as it was; and a revocation that follows a revocation of the
\* same token leaves the table as the first one left it.
C16_RevokeContract ==
    [][ StoreCallOf("revoke_refresh_token")
        => LET token == The(resp'.token) IN
           /\ resp'.result <=> (RowsOf(refresh_tokens, token) # {})
           /\ resp'.result =>
                refresh_tokens' = { IF r.token = token THEN [r EXCEPT !.is_revoked = TRUE]
                                    ELSE r : r \in refresh_tokens }
           /\ ~resp'.result => refresh_tokens' = refresh_tokens
           /\ (resp.op = "revoke_refresh_token" /\ resp.token = resp'.token)
              => refresh_tokens' = refresh_tokens ]_vars

\* A revocation has returned true for a token whose row the revocation
\* before it had already revoked.
C16_Witness ==
    /\ resp.op = "revoke_refresh_token"
    /\ resp.result
    /\ resp.prev_op = "revoke_refresh_token"
    /\ resp.prev_token = resp.token
    /\ \A r \in RowsOf(refresh_tokens, The(resp.token)) : r.is_revoked
    /\ \E r \in refresh_tokens : r.token # The(resp.token) /\ ~r.is_revoked

\* No two rows hold the same token string.
UniqueTokens(R) == \A r1, r2 \in R : r1.token = r2.token => r1 = r2

\* C19: the table never holds two rows with one token string, and a lookup
\* returns a row exactly when the table holds a row with the token string
\* that is not revoked and whose expires_at is later than the clock; the row
\* returned is that row.
C19_UniqueAndActiveLookup ==
    [][ /\ UniqueTokens(refresh_tokens')
        /\ StoreCallOf("get_refresh_token")
           => LET token == The(resp'.token) IN
              /\ resp'.row # None
                   <=> \E r \in refresh_tokens :
                          r.token = token /\ ~r.is_revoked /\ r.expires_at > now
              /\ \A r \in resp'.row :
                    /\ r \in refresh_tokens
                    /\ r.token = token /\ ~r.is_revoked /\ r.expires_at > now
              /\ Cardinality(resp'.row) <= 1 ]_vars

\* A lookup has returned the row of a token string for which a second insert
\* had just been refused.
C19_Witness ==
    /\ resp.op = "get_refresh_token"
    /\ resp.row # None
    /\ resp.prev_op = "create_refresh_token"
    /\ resp.prev_token = resp.token
    /\ ~resp.prev_result

-----------------------------------------------------------------------------
(* User deletion by an administrator (UserService.delete_user), next to    *)
(* the operations of AuthService.                                          *)

\* The id of the administrator that deletes; it only goes into the audit
\* details.
AdminUserId == "admin"

\* user.status = UserStatus.INACTIVE: the row stays in the table.
UserRepository_delete_user(U, user_id) ==
    IF UserRepository_get_user_by_id(U, user_id) = None
    THEN [result |-> FALSE, table |-> U]
    ELSE [result |-> TRUE,
          table |-> { IF u.id = user_id THEN [u EXCEPT !.status = "inactive"] ELSE u
                        : u \in U }]

\* A deletion that also deletes the refresh tokens of the user.
delete_user_cascades(U, R, A, user_id, admin_user_id) ==
    IF UserRepository_get_user_by_id(U, user_id) = None
    THEN Outcome(FALSE, "Usuario no encontrado", None, U, R, A, <<>>)
    ELSE LET deleted == UserRepository_delete_user(U, user_id)
             call == AuditData(Some(user_id), "user_deletion", "")
             logged == AuditLogger_log_action(A, call)
         IN  IF ~deleted.result
             THEN Outcome(FALSE, "Error eliminando usuario", None, U, R, A, <<>>)
             ELSE IF logged.raised
             THEN Outcome(FALSE, "Error eliminando usuario: TypeError", None,
                          deleted.table, { r \in R : r.user_id # user_id },
                          logged.table, <<call>>)
             ELSE Outcome(TRUE, "Usuario eliminado exitosamente", None,
                          deleted.table, { r \in R : r.user_id # user_id },
                          logged.table, <<call>>)

UserService_delete_user(U, R, A, user_id, admin_user_id) ==
    IF UserRepository_get_user_by_id(U, user_id) = None
    THEN Outcome(FALSE, "Usuario no encontrado", None, U, R, A, <<>>)
    ELSE LET deleted == UserRepository_delete_user(U, user_id)
             call == AuditData(Some(user_id), "user_deletion", "")
             logged == AuditLogger_log_action(A, call)
         IN  IF ~deleted.result
             THEN Outcome(FALSE, "Error eliminando usuario", None, U, R, A, <<>>)
             ELSE IF logged.raised
             THEN Outcome(FALSE, "Error eliminando usuario: TypeError", None,
                          deleted.table, R, logged.table, <<call>>)
             ELSE Outcome(TRUE, "Usuario eliminado exitosamente", None,
                          deleted.table, R, logged.table, <<call>>)

DeleteUser(user_id) ==
    LET out == UserService_delete_user(users, refresh_tokens, audit_logs, user_id,
                                       AdminUserId) IN
    /\ Idle
    /\ Commit(out)
    /\ resp' = Completed("delete_user", "", "", None, None, out)
    /\ UNCHANGED <<now, rotated, req>>

NextAdmin ==
    \/ \E password \in RegisterPasswords : Register(ConcurrentCedula, password)
    \/ \E password \in Passwords, jti \in Draws : Login(ConcurrentCedula, password, jti)
    \/ \E token \in PresentedTokens, jti \in Draws : Refresh(token, jti)
    \/ \E access_token \in PresentedTokens,
          refresh_token \in {None} \cup { Some(tok) : tok \in StoredTokens } :
          Logout(access_token, refresh_token)
    \/ \E token \in PresentedTokens : Verify(token)
    \/ \E user_id \in UserIds : DeleteUser(user_id)
    \/ Respond
    \/ Tick

SpecAdmin == Init /\ [][NextAdmin]_vars

\* C17: once the revoked flag of a row is true it is true after every step:
\* the row is still in the table and no row with its token string is
\* unrevoked.
C17_RevokedMonotonic ==
    [][ \A r \in refresh_tokens :
          r.is_revoked =>
            /\ \E n \in refresh_tokens' : n.token = r.token /\ n.is_revoked
            /\ \A n \in refresh_tokens' : n.token = r.token => n.is_revoked ]_vars

\* A logout has revoked again a refresh token that a rotation had revoked.
C17_Witness ==
    /\ resp.op = "logout"
    /\ resp.success
    /\ resp.refresh_token # None
    /\ The(resp.refresh_token) \in rotated
    /\ IsRevoked(refresh_tokens, The(resp.refresh_token))

\* C18: no step removes a row of the refresh_tokens table, and no step
\* changes the token string, the owner or the expiry of a row: login,
\* refresh, logout, verify, register and the deletion of a user leave every
\* row in the table, so the number of rows never goes down.
C18_RowsNeverDeleted ==
    [][ /\ \A r \in refresh_tokens :
              \E n \in refresh_tokens' :
                 /\ n.token = r.token
                 /\ n.user_id = r.user_id
                 /\ n.expires_at = r.expires_at
                 /\ n.created_by_ip = r.created_by_ip
        /\ Cardinality(refresh_tokens') >= Cardinality(refresh_tokens)
        /\ UniqueTokens(refresh_tokens) => UniqueTokens(refresh_tokens') ]_vars

\* A user has been deleted and the refresh-token rows of that user are still
\* in the table.
C18_Witness ==
    /\ resp.op = "delete_user"
    /\ resp.success
    /\ \E u \in users : u.status = "inactive"
                          /\ \E r \in refresh_tokens : r.user_id = u.id

\* C20: once a user has been deleted, a refresh of a refresh token that was
\* issued to that user before the deletion, that the codec accepts and that
\* is active in the store, fails with the user-not-found outcome and adds no
\* row.  The refresh is the one made in the state the deletion leaves, with
\* a new refresh token that is not yet a token string of the store.
C20_DeletedUserCannotRefresh ==
    [][ (CallOf("delete_user") /\ resp'.success)
        => \A r \in refresh_tokens, jti \in Nonces :
              (/\ r.user_id = The(resp'.calls[1].user_id)
               /\ ~r.is_revoked /\ r.expires_at > now
               /\ verify_token(r.token, "refresh", now) # None
               /\ create_refresh_token([sub |-> r.user_id], now, jti) \notin StoredTokens)
              => LET out == AuthService_refresh_access_token(
                                users', refresh_tokens', audit_logs', now',
                                r.token, IpAddress, jti)
                 IN  /\ ~out.success
                     /\ out.message = "Usuario no encontrado"
                     /\ out.payload = None
                     /\ out.refresh_tokens = refresh_tokens' ]_vars

\* C21: once the account of a user has been deleted, a verify call on an
\* access token that the codec accepts (genuine, of kind access, not
\* expired) and whose subject is that user fails with the user-not-found
\* outcome.  The user is one that has logged in, so that access tokens with
\* that subject have been issued.
C21_AccessTokenDiesWithAccount ==
    [][ (/\ CallOf("verify")
         /\ verify_token(The(resp'.token), "access", now) # None
         /\ \E u \in users : /\ u.id = The(resp'.token).payload.sub
                             /\ u.status = "inactive"
                             /\ u.last_login # "null")
        => (/\ ~resp'.success
            /\ resp'.message = "Usuario no encontrado"
            /\ resp'.payload = None) ]_vars

-----------------------------------------------------------------------------
(* Verify *)

\* C22: a verify call, whether it succeeds or fails, leaves the users table,
\* the refresh_tokens table and the audit log as they were, and makes no
\* audit call.
C22_VerifyIsPure ==
    [][ CallOf("verify")
        => /\ users' = users
           /\ refresh_tokens' = refresh_tokens
           /\ audit_logs' = audit_logs
           /\ resp'.calls = <<>> ]_vars

\* A verify call has succeeded for a user that holds an unrevoked refresh
\* token.
C22_Witness ==
    /\ resp.op = "verify"
    /\ resp.success
    /\ \E r \in refresh_tokens : /\ r.user_id = The(resp.payload).sub
                                 /\ ~r.is_revoked

\* The refresh_tokens table with every row revoked.
AllRevoked(R) == { [r EXCEPT !.is_revoked = TRUE] : r \in R }

\* C23: the outcome of a verify call is fixed by the token, the clock and
\* the existence of the user the token names: it is success with the claims
\* of the token exactly when the codec accepts the token as an access token
\* and a user with the subject's id exists, and it is the outcome the same
\* call has against an empty refresh_tokens table and against the table with
\* every row revoked.
C23_AccessTokensStateless ==
    [][ CallOf("verify")
        => LET token == The(resp'.token)
               claims == verify_token(token, "access", now)
               exists == \E u \in users : u.id = token.payload.sub
           IN  /\ resp'.success <=> (claims # None /\ exists)
               /\ resp'.success => resp'.payload = claims
               /\ \A R \in {{}, AllRevoked(refresh_tokens)} :
                     LET v == AuthService_verify_token(users, R, audit_logs, now, token)
                     IN  /\ v.success = resp'.success
                         /\ v.message = resp'.message
                         /\ v.payload = resp'.payload ]_vars

\* A verify call has succeeded on an access token after the refresh token
\* issued with it was revoked, the user holding no unrevoked refresh token.
C23_Witness ==
    /\ resp.op = "verify"
    /\ resp.success
    /\ \E r \in refresh_tokens :
          /\ r.user_id = The(resp.payload).sub
          /\ r.token.payload.iat = The(resp.payload).iat
          /\ r.is_revoked
    /\ \A r \in refresh_tokens : r.user_id = The(resp.payload).sub => r.is_revoked
    /\ rotated # {}

-----------------------------------------------------------------------------
(* Registration followed by login *)

\* The user row is as register_user creates it.
AsRegistered(u) ==
    /\ u.role = "customer"
    /\ u.status = "pending_verification"
    /\ ~u.is_verified

\* C24: register_user creates the user with role customer, status
\* pending-verification and not verified, and the login made with the
\* registered cedula and secret in the state the registration leaves
\* succeeds, whatever refresh token it draws; and every login of such a user
\* with the registered secret succeeds unless the refresh token it minted is
\* already stored, the access token it returns carrying role customer, the
\* user's cedula and the user's id.
C24_RegisteredUserLogsIn ==
    [][ /\ (CallOf("register") /\ resp'.success)
           => /\ \E u \in users' \ users :
                    /\ u.cedula = resp'.cedula
                    /\ u.id = The(resp'.payload).user_id
                    /\ AsRegistered(u)
              /\ \A jti \in Nonces :
                    LET out == AuthService_login_user(users', refresh_tokens', audit_logs',
                                   now', resp'.cedula, resp'.password, IpAddress, jti)
                    IN  /\ out.success
                        /\ The(out.payload).access_token.payload.role = "customer"
                        /\ The(out.payload).access_token.payload.cedula = resp'.cedula
                        /\ The(out.payload).access_token.payload.sub
                             = The(resp'.payload).user_id
        /\ CorrectLogin
           => LET u == The(UserRepository_get_user_by_cedula(users, resp'.cedula)) IN
              AsRegistered(u)
              => /\ (\A jti \in Nonces :
                        create_refresh_token([sub |-> u.id], now, jti) \notin StoredTokens)
                    => resp'.success
                 /\ resp'.success
                    => /\ The(resp'.payload).access_token.payload.role = "customer"
                       /\ The(resp'.payload).access_token.payload.cedula = u.cedula
                       /\ The(resp'.payload).access_token.payload.sub = u.id
                       /\ The(resp'.payload).access_token.payload.type = "access" ]_vars

\* A user that is as registration left it, pending verification and not
\* verified, has logged in and holds an access token with role customer.
C24_Witness ==
    /\ resp.op = "login"
    /\ resp.success
    /\ \E u \in users :
          /\ u.cedula = resp.cedula
          /\ AsRegistered(u)
          /\ The(resp.payload).access_token.payload.role = "customer"
          /\ The(resp.payload).access_token.payload.cedula = u.cedula

-----------------------------------------------------------------------------
(* The Token Codec on its own: a token is issued for a claim set and then  *)
(* validated, at once or after the clock has moved.  resp holds the claim  *)
(* set, the kind, the lifetime, the token and the result of validation.    *)

Roles == {"customer", "admin", "agent"}

\* The claim sets login and refresh pass: create_access_token takes sub,
\* cedula and role, create_refresh_token takes sub.
AccessClaims == [sub : UserIds, cedula : Cedulas, role : Roles]
RefreshClaims == [sub : UserIds]

\* Positive lifetimes of an access token.
Ttls == 1..2

CodecCall(op, claims, kind, ttl, token) ==
    [op |-> op, claims |-> claims, kind |-> kind, ttl |-> ttl, issued_at |-> now,
     token |-> token, expected_kind |-> "", validated_at |-> now, result |-> None]

CodecIssueAccess(claims, ttl) ==
    /\ resp' = CodecCall("issue", claims, "access", ttl,
                         Some(create_access_token(claims, ttl, now)))
    /\ UNCHANGED <<users, refresh_tokens, audit_logs, now, rotated, req>>

CodecIssueRefresh(claims, jti) ==
    /\ resp' = CodecCall("issue", claims, "refresh", REFRESH_TOKEN_EXPIRE_DAYS,
                         Some(create_refresh_token(claims, now, jti)))
    /\ UNCHANGED <<users, refresh_tokens, audit_logs, now, rotated, req>>

CodecValidate(expected_kind) ==
    /\ resp.op \in {"issue", "validate"}
    /\ resp' = [resp EXCEPT !.op = "validate",
                            !.expected_kind = expected_kind,
                            !.validated_at = now,
                            !.result = verify_token(The(resp.token), expected_kind, now)]
    /\ UNCHANGED <<users, refresh_tokens, audit_logs, now, rotated, req>>

NextCodec ==
    \/ \E claims \in AccessClaims, ttl \in Ttls : CodecIssueAccess(claims, ttl)
    \/ \E claims \in RefreshClaims, jti \in Nonces : CodecIssueRefresh(claims, jti)
    \/ \E expected_kind \in {"access", "refresh"} : CodecValidate(expected_kind)
    \/ StoreTick

SpecCodec == Init /\ [][NextCodec]_vars

\* The claims of a payload without the fields the codec adds (kind,
\* issued-at, expiry and the random payload); a claim the caller did not
\* pass is the empty string.
CallerClaims(claims) ==
    [k \in {"sub", "cedula", "role"} |-> IF k \in DOMAIN claims THEN claims[k] ELSE ""]

-----------------------------------------------------------------------------
(* The token response *)

\* C26: every login and every refresh that returns success returns a token
\* pair with token_type "bearer" and expires_in equal to
\* ACCESS_TOKEN_EXPIRE_MINUTES * 60, which is sixty times the lifetime, in
\* minutes, embedded in the access token of the pair.
C26_BearerAndExpiresIn ==
    [][ (Idle /\ resp'.op \in {"login", "refresh"} /\ resp'.success)
        => /\ resp'.payload # None
           /\ The(resp'.payload).token_type = "bearer"
           /\ The(resp'.payload).expires_in = ACCESS_TOKEN_EXPIRE_MINUTES * 60
           /\ The(resp'.payload).expires_in
                = 60 * (The(resp'.payload).access_token.payload.exp
                          - The(resp'.payload).access_token.payload.iat) ]_vars

\* A refresh has returned a bearer pair after a login had returned one.
C26_Witness ==
    /\ resp.op = "refresh"
    /\ resp.success
    /\ The(resp.payload).token_type = "bearer"
    /\ The(resp.payload).expires_in = ACCESS_TOKEN_EXPIRE_MINUTES * 60
    /\ \E u \in users : u.last_login # "null"

-----------------------------------------------------------------------------
(* The lifecycle of refresh-token rows *)

\* The rows this step adds to the refresh_tokens table.
AddedRows == { n \in refresh_tokens' : n.token \notin StoredTokens }

\* The rows this step revokes.
NewlyRevoked ==
    { r \in refresh_tokens : ~r.is_revoked /\ IsRevoked(refresh_tokens', r.token) }

\* C27: a step that adds a refresh-token row is a login or a refresh that
\* returns success with the token of that row, and it adds that row alone,
\* unrevoked; a step that revokes a row is a logout that was given the
\* token of the row or a refresh of that token; so a failed login, a verify
\* and a logout add no row.
C27_RowLifecycle ==
    [][ /\ \A n \in AddedRows :
              /\ Idle
              /\ resp'.op \in {"login", "refresh"}
              /\ resp'.success
              /\ resp'.payload # None
              /\ The(resp'.payload).refresh_token = n.token
              /\ ~n.is_revoked
              /\ AddedRows = {n}
        /\ \A r \in NewlyRevoked :
              /\ Idle
              /\ resp'.op \in {"logout", "refresh"}
              /\ resp'.refresh_token = Some(r.token)
        /\ (Idle /\ \/ resp'.op \in {"verify", "logout"}
                    \/ (resp'.op = "login" /\ ~resp'.success))
           => AddedRows = {} ]_vars

\* C28: a refresh call that returns failure leaves the refresh_tokens table
\* as it was: the presented token keeps its revoked flag and no row is
\* added, whatever made the call fail.
C28_FailedRefreshChangesNothing ==
    [][ (CallOf("refresh") /\ ~resp'.success)
        => /\ refresh_tokens' = refresh_tokens
           /\ \A r \in RowsOf(refresh_tokens, The(resp'.refresh_token)) :
                 \E n \in refresh_tokens' : n.token = r.token /\ n.is_revoked = r.is_revoked
           /\ AddedRows = {} ]_vars

-----------------------------------------------------------------------------
(* The two commits of a rotation *)

\* C29: in a refresh, the step that revokes the presented token commits
\* before the new row is inserted: it leaves the presented token revoked,
\* not active, and adds no row; while the call stands between the two
\* commits the presented token is revoked; and when the insert then fails
\* the call returns failure with no token pair, the table is as the
\* revocation left it and the presented token is not active.
C29_RevokeCommitsBeforeInsert ==
    [][ \A p \in Procs :
          LET presented == The(req[p].refresh_token) IN
          /\ (req[p].pc = "revoke_refresh_token" /\ req'[p].pc = "create_refresh_token")
             => /\ IsRevoked(refresh_tokens', presented)
                /\ RefreshTokenRepository_get_refresh_token(refresh_tokens', presented, now')
                     = None
                /\ AddedRows = {}
          /\ req[p].pc = "create_refresh_token"
             => /\ IsRevoked(refresh_tokens, presented)
                /\ ~IsActive(refresh_tokens, presented, now)
          /\ (req[p].pc = "create_refresh_token" /\ req'[p].pc = "done" /\ ~req'[p].success)
             => /\ req'[p].payload = None
                /\ refresh_tokens' = refresh_tokens
                /\ ~IsActive(refresh_tokens', presented, now') ]_vars

\* A refresh stands between its two commits: the presented token is
\* revoked, the new token is not stored, and the user holds no refresh
\* token that is not revoked.
C29_Witness ==
    \E p \in Procs :
        /\ req[p].pc = "create_refresh_token"
        /\ IsRevoked(refresh_tokens, The(req[p].refresh_token))
        /\ The(req[p].new_refresh_token) \notin StoredTokens
        /\ \A r \in refresh_tokens : r.user_id = The(req[p].user).id => r.is_revoked

-----------------------------------------------------------------------------
(* A refresh token whose token string is already stored *)

\* What leaves a call that mints a token string that is already stored: no
\* exception, the failure outcome with the given message and no payload,
\* and a table with the token strings it found, one row for each.
DuplicateReported(out, message) ==
    /\ ~out.raised
    /\ ~out.success
    /\ out.message = message
    /\ out.payload = None
    /\ { n.token : n \in out.refresh_tokens } = StoredTokens
    /\ Cardinality(out.refresh_tokens) = Cardinality(refresh_tokens)

\* C30: the insert of a row whose token string the table already holds
\* raises and leaves the table as it was; a login or a refresh that mints
\* such a token string returns its failure outcome, lets no exception leave
\* the method and adds no row; so no login or refresh returns success with
\* a token string that was already stored, and the table never holds two
\* rows with one token string.
C30_DuplicateTokenHandled ==
    [][ /\ \A r \in refresh_tokens, user_id \in UserIds :
              LET created == RefreshTokenRepository_create_refresh_token(refresh_tokens,
                                 [user_id |-> user_id, token |-> r.token,
                                  expires_at |-> now + REFRESH_TOKEN_EXPIRE_DAYS,
                                  created_by_ip |-> IpAddress])
              IN  created.raised /\ created.table = refresh_tokens
        /\ CorrectLogin
           => LET u == The(UserRepository_get_user_by_cedula(users, resp'.cedula)) IN
              \A jti \in Nonces :
                 create_refresh_token([sub |-> u.id], now, jti) \in StoredTokens
                 => DuplicateReported(
                        AuthService_login_user_faulty(users, refresh_tokens, audit_logs, now,
                            resp'.cedula, resp'.password, IpAddress, jti, 0),
                        "Error en login: IntegrityError")
        /\ (CallOf("refresh") /\ Len(resp'.steps) = 4)
           => LET token == The(resp'.refresh_token) IN
              \A jti \in Nonces :
                 create_refresh_token([sub |-> token.payload.sub], now, jti) \in StoredTokens
                 => DuplicateReported(
                        AuthService_refresh_access_token_faulty(users, refresh_tokens,
                            audit_logs, now, token, IpAddress, jti, 0),
                        "Error renovando token: IntegrityError")
        /\ (Idle /\ resp'.op \in {"login", "refresh"})
           => /\ ~resp'.raised
              /\ resp'.success
                 => /\ The(resp'.payload).refresh_token \notin StoredTokens
                    /\ The(resp'.payload).refresh_token \in { n.token : n \in refresh_tokens' }
              /\ (~resp'.success /\ ~resp'.faulted) => AddedRows = {}
        /\ UniqueTokens(refresh_tokens') ]_vars

\* A login with the right password has minted a token string that was
\* already stored and has returned the failure outcome.
C30_Witness ==
    /\ resp.op = "login"
    /\ ~resp.success
    /\ ~resp.raised
    /\ ~resp.faulted
    /\ resp.message = "Error en login: IntegrityError"
    /\ UserRepository_authenticate_user(users, resp.cedula, resp.password) # None
    /\ UniqueTokens(refresh_tokens)

-----------------------------------------------------------------------------
(* Logout with a refresh token the store does not hold *)

\* C31: a logout that presents an access token the codec accepts and a
\* refresh token that has no row in the refresh_tokens table returns
\* success, leaves the refresh_tokens table as it was, and appends one
\* audit entry with action logout bound to the subject of the access token.
C31_LogoutOfAbsentToken ==
    [][ (/\ CallOf("logout")
         /\ verify_token(The(resp'.token), "access", now) # None
         /\ resp'.refresh_token # None
         /\ RowsOf(refresh_tokens, The(resp'.refresh_token)) = {})
        => /\ resp'.success
           /\ resp'.message = "Logout exitoso"
           /\ refresh_tokens' = refresh_tokens
           /\ Appended("logout", Some(The(resp'.token).payload.sub)) ]_vars

-----------------------------------------------------------------------------
(* The HTTP routes of app/routers/auth.py over the operations of           *)
(* AuthService, with store failures: what the caller sees is the status    *)
(* code of the response.                                                   *)

\* POST /auth/login and POST /auth/refresh: 401 when the service returns
\* failure, 500 when an exception other than HTTPException reaches the
\* route, 200 otherwise.
login_route(out) ==
    IF out.raised THEN 500 ELSE IF ~out.success THEN 401 ELSE 200

refresh_token_route(out) ==
    IF out.raised THEN 500 ELSE IF ~out.success THEN 401 ELSE 200

\* POST /auth/logout: the dependency get_current_user answers 401 when
\* verify_token fails; then 400 when the service returns failure.
logout_route(current_user, out) ==
    IF current_user.raised THEN 500
    ELSE IF ~current_user.success THEN 401
    ELSE IF out.raised THEN 500
    ELSE IF ~out.success THEN 400
    ELSE 200

\* The call being answered, with the status code of the response.
Responded(call, status_code) == [status_code |-> status_code] @@ call

LoginRoute(cedula, password, jti, fault) ==
    LET out == AuthService_login_user_faulty(users, refresh_tokens, audit_logs, now,
                                             cedula, password, IpAddress, jti, fault) IN
    /\ Idle
    /\ Cardinality(out.refresh_tokens) <= MaxRows
    /\ Commit(out)
    /\ resp' = Responded(CompletedFaulty("login", cedula, password, None, None, out),
                         login_route(out))
    /\ UNCHANGED <<now, rotated, req>>

RefreshRoute(token, jti, fault) ==
    LET out == AuthService_refresh_access_token_faulty(users, refresh_tokens, audit_logs,
                                                       now, token, IpAddress, jti, fault) IN
    /\ Idle
    /\ Cardinality(out.refresh_tokens) <= MaxRows
    /\ Commit(out)
    /\ resp' = Responded(CompletedFaulty("refresh", "", "", None, Some(token), out),
                         refresh_token_route(out))
    /\ rotated' = IF out.success THEN rotated \cup {token} ELSE rotated
    /\ UNCHANGED <<now, req>>

LogoutRoute(access_token, refresh_token, dependency_fault, fault) ==
    LET current_user == AuthService_verify_token_faulty(users, refresh_tokens, audit_logs,
                                                        now, access_token, dependency_fault)
        out == IF current_user.success
               THEN AuthService_logout_user_faulty(users, refresh_tokens, audit_logs, now,
                                                   access_token, refresh_token, fault)
               ELSE current_user
    IN  /\ Idle
        /\ Commit(out)
        /\ resp' = Responded(CompletedFaulty("logout", "", "", Some(access_token),
                                             refresh_token, out),
                             logout_route(current_user, out))
        /\ UNCHANGED <<now, rotated, req>>

NextHttp ==
    \/ \E password \in RegisterPasswords : Register(ConcurrentCedula, password)
    \/ \E password \in Passwords, jti \in Draws, fault \in Faults :
          LoginRoute(ConcurrentCedula, password, jti, fault)
    \/ \E token \in PresentedTokens, jti \in Draws, fault \in Faults :
          RefreshRoute(token, jti, fault)
    \/ \E access_token \in PresentedTokens, dependency_fault \in {0, 1}, fault \in {0, 1},
          refresh_token \in {None} \cup { Some(tok) : tok \in StoredTokens } :
          LogoutRoute(access_token, refresh_token, dependency_fault, fault)
    \/ Respond
    \/ Tick

SpecHttp == Init /\ [][NextHttp]_vars

\* C32: a login, refresh or logout request in which a repository call
\* raised is answered with a 5xx status code, and a request answered with
\* the 4xx status code of invalid credentials or invalid tokens is one in
\* which no repository call raised.
C32_StoreFailureIs5xx ==
    [][ (Idle /\ resp'.op \in {"login", "refresh", "logout"})
        => /\ resp'.faulted => resp'.status_code >= 500
           /\ resp'.status_code \in {400, 401} => ~resp'.faulted ]_vars

\* C33: a refresh request that presents an expired refresh token, a revoked
\* one or one that was never issued is answered with one and the same
\* outcome: the message and the status code are those of the answer to a
\* string that is no token at all.
C33_RefreshFailuresAlike ==
    [][ (CallOf("refresh") /\ ~resp'.faulted)
        => LET token == The(resp'.refresh_token)
               expired == \/ now > token.payload.exp
                          \/ \E r \in RowsOf(refresh_tokens, token) : r.expires_at <= now
               revoked == IsRevoked(refresh_tokens, token)
               never_issued == token \notin StoredTokens
               never == AuthService_refresh_access_token_faulty(users, refresh_tokens,
                            audit_logs, now, Malformed, IpAddress, 1, 0)
           IN  (expired \/ revoked \/ never_issued)
               => /\ ~resp'.success
                  /\ resp'.message = never.message
                  /\ resp'.status_code = refresh_token_route(never) ]_vars

-----------------------------------------------------------------------------
(* The status of a user *)

\* UserStatus
Statuses == {"active", "inactive", "suspended", "pending_verification"}

\* The users table with every user in status s.
WithStatus(U, s) == { [u EXCEPT !.status = s] : u \in U }

\* Two outcomes that a caller cannot tell apart and that leave the same
\* tables, the status column aside.
SameOutcome(a, b, s) ==
    /\ a.success = b.success
    /\ a.message = b.message
    /\ a.payload = b.payload
    /\ a.refresh_tokens = b.refresh_tokens
    /\ WithStatus(a.users, s) = b.users

\* C34: a login, a refresh and a verify call return the outcome, and leave
\* the tables, that the same call has when the users are in any other
\* status, active, inactive, suspended or pending verification; the outcome
\* returned is one of those.
C34_StatusNeverConsulted ==
    [][ \A s \in Statuses :
          /\ CallOf("login")
             => /\ \A jti \in Nonces :
                      SameOutcome(
                          AuthService_login_user(users, refresh_tokens, audit_logs, now,
                              resp'.cedula, resp'.password, IpAddress, jti),
                          AuthService_login_user(WithStatus(users, s), refresh_tokens,
                              audit_logs, now, resp'.cedula, resp'.password, IpAddress, jti),
                          s)
                /\ \E jti \in Nonces :
                      LET b == AuthService_login_user(WithStatus(users, s), refresh_tokens,
                                   audit_logs, now, resp'.cedula, resp'.password,
                                   IpAddress, jti)
                      IN  /\ resp'.success = b.success
                          /\ resp'.message = b.message
                          /\ resp'.payload = b.payload
          /\ CallOf("refresh")
             => /\ \A jti \in Nonces :
                      SameOutcome(
                          AuthService_refresh_access_token(users, refresh_tokens, audit_logs,
                              now, The(resp'.refresh_token), IpAddress, jti),
                          AuthService_refresh_access_token(WithStatus(users, s),
                              refresh_tokens, audit_logs, now, The(resp'.refresh_token),
                              IpAddress, jti),
                          s)
                /\ \E jti \in Nonces :
                      LET b == AuthService_refresh_access_token(WithStatus(users, s),
                                   refresh_tokens, audit_logs, now,
                                   The(resp'.refresh_token), IpAddress, jti)
                      IN  /\ resp'.success = b.success
                          /\ resp'.message = b.message
                          /\ resp'.payload = b.payload
          /\ CallOf("verify")
             => LET b == AuthService_verify_token(WithStatus(users, s), refresh_tokens,
                             audit_logs, now, The(resp'.token))
                IN  /\ resp'.success = b.success
                    /\ resp'.message = b.message
                    /\ resp'.payload = b.payload
                    /\ WithStatus(users', s) = b.users ]_vars

\* A user whose account has been deleted has refreshed a token pair.
C34_Witness ==
    /\ resp.op = "refresh"
    /\ resp.success
    /\ \E u \in users :
          /\ u.id = The(resp.payload).access_token.payload.sub
          /\ u.status = "inactive"

-----------------------------------------------------------------------------
(* Simultaneous registrations: each request runs AuthService.register_user *)
(* in its own session, and the calls of another request can fall between   *)
(* its existence check and its insert.                                     *)

\* An insert into a users table whose cedula column is not unique.
users_insert_not_unique(U, user) == [raised |-> FALSE, table |-> U \cup {user}]

\* db.add(user); db.commit(): cedula is a unique column, so the commit of a
\* second row with the same cedula raises IntegrityError.
users_insert(U, user) ==
    IF \E u \in U : u.cedula = user.cedula
    THEN [raised |-> TRUE, table |-> U]
    ELSE [raised |-> FALSE, table |-> U \cup {user}]

\* A register_user call in flight.
RegisterRequest(pc, cedula, password) ==
    [pc |-> pc, cedula |-> cedula, password |-> password,
     success |-> FALSE, message |-> "", payload |-> None]

\* self.user_repo.check_cedula_exists(user_data.cedula)
RegisterCheck(p, cedula, password) ==
    /\ req[p].pc = "idle"
    /\ IF UserRepository_check_cedula_exists(users, cedula)
       THEN req' = [req EXCEPT ![p] =
                       [RegisterRequest("done", cedula, password)
                          EXCEPT !.message = "La cedula ya esta registrada"]]
       ELSE req' = [req EXCEPT ![p] = RegisterRequest("create_user", cedula, password)]
    /\ UNCHANGED <<users, refresh_tokens, audit_logs, now, resp, rotated>>

\* self.user_repo.create_user(user_dict), the audit call and the return; an
\* exception of the insert is caught by the handler.
RegisterCreate(p) ==
    /\ req[p].pc = "create_user"
    /\ LET user == UserRepository_create_user(users, req[p].cedula, req[p].password)
           inserted == users_insert(users, user)
           logged == AuditLogger_log_action(audit_logs,
                         AuditData(Some(user.id), "register", user.cedula))
       IN  IF inserted.raised
           THEN /\ Returned(p, FALSE, "Error registrando usuario: IntegrityError", None)
                /\ UNCHANGED <<users, audit_logs>>
           ELSE /\ users' = inserted.table
                /\ audit_logs' = logged.table
                /\ Returned(p, TRUE, "Usuario registrado exitosamente",
                            Some([user_id |-> user.id]))
    /\ UNCHANGED <<refresh_tokens, now, resp, rotated>>

\* The outcome reaches the caller and the handler is free again.
RegisterReturn(p) ==
    /\ req[p].pc = "done"
    /\ req' = [req EXCEPT ![p] = NoRequest]
    /\ UNCHANGED <<users, refresh_tokens, audit_logs, now, resp, rotated>>

NextRegister ==
    \/ \E p \in Procs, cedula \in Cedulas, password \in Passwords :
          RegisterCheck(p, cedula, password)
    \/ \E p \in Procs : RegisterCreate(p)
    \/ \E p \in Procs : RegisterReturn(p)

SpecRegister == Init /\ [][NextRegister]_vars

\* C35: no two users have the same cedula, and of two register_user calls
\* for one cedula that have both ended, whatever the order of their steps,
\* at most one has returned success; the other has returned a failure
\* outcome with no payload.
C35_CedulaUnique ==
    /\ \A u1, u2 \in users : u1.cedula = u2.cedula => u1 = u2
    /\ \A p, q \in Procs :
          (/\ p # q
           /\ req[p].pc = "done" /\ req[q].pc = "done"
           /\ req[p].cedula = req[q].cedula)
          => /\ ~(req[p].success /\ req[q].success)
             /\ ~req[q].success => req[q].payload = None
             /\ Cardinality({ u \in users : u.cedula = req[p].cedula }) <= 1

\* Two register_user calls for one cedula both passed the existence check;
\* one created the user and the other failed on the insert.
C35_Witness ==
    \E p, q \in Procs :
        /\ p # q
        /\ req[p].pc = "done" /\ req[q].pc = "done"
        /\ req[p].cedula = req[q].cedula
        /\ req[p].success
        /\ ~req[q].success
        /\ req[q].message = "Error registrando usuario: IntegrityError"
        /\ Cardinality(users) = 1


-----------------------------------------------------------------------------
(* Profile updates.  An update payload is the set of its keys; the value a *)
(* key carries is NewValue(key), which differs from every value a column   *)
(* holds after registration.                                               *)

protected_fields == {"id", "cedula", "password_hash", "role", "status", "created_at"}

\* The columns of the users table that the model carries.
Columns ==
    {"id", "cedula", "password_hash", "first_name", "profile_photo_url",
     "role", "status", "is_verified", "created_at", "last_login"}

\* The declared fields of UserUpdateRequest.
UserUpdateRequest_fields == {"first_name"}

\* The keys a caller may send: the protected ones, one personal column, one
\* image column, and one key that is no column at all.
UpdateKeys == protected_fields \cup {"first_name", "profile_photo_url", "nickname"}

NewValue(field) ==
    CASE field = "id" -> 99
      [] field = "cedula" -> "99999999"
      [] field = "password_hash" -> get_password_hash("password-9")
      [] field = "role" -> "admin"
      [] field = "status" -> "active"
      [] field = "created_at" -> "1970-01-01"
      [] field = "first_name" -> "new_name"
      [] field = "profile_photo_url" -> "url"
      [] OTHER -> "value"

\* setattr(user, field, value) for every field of fields.
SetAttrs(user, fields) ==
    LET Val(f) == IF f \in fields THEN NewValue(f) ELSE user[f] IN
    [id |-> Val("id"), cedula |-> Val("cedula"),
     password_hash |-> Val("password_hash"),
     first_name |-> Val("first_name"),
     profile_photo_url |-> Val("profile_photo_url"),
     role |-> Val("role"), status |-> Val("status"),
     is_verified |-> user.is_verified,
     created_at |-> Val("created_at"), last_login |-> user.last_login]

\* An update that sets every key of the payload that names a column.
update_user_unprotected(U, user_id, update_data) ==
    LET user == UserRepository_get_user_by_id(U, user_id) IN
    IF user = None THEN [user |-> None, table |-> U]
    ELSE LET updated == SetAttrs(The(user), update_data \cap Columns)
         IN  [user |-> Some(updated), table |-> (U \ user) \cup {updated}]

\* The protected keys are popped from the payload, then every remaining key
\* that names an attribute of the row is set.
UserRepository_update_user(U, user_id, update_data) ==
    LET user == UserRepository_get_user_by_id(U, user_id) IN
    IF user = None THEN [user |-> None, table |-> U]
    ELSE LET popped == update_data \ protected_fields
             updated == SetAttrs(The(user), popped \cap Columns)
         IN  [user |-> Some(updated), table |-> (U \ user) \cup {updated}]

\* Parsing the request body keeps the declared fields that were sent.
UserUpdateRequest(body) == body \cap UserUpdateRequest_fields

\* update_data.cedula is read first; UserUpdateRequest declares no such
\* field, so the read raises AttributeError, which the handler catches.
UserService_update_user_profile(U, R, A, user_id, update_data) ==
    LET existing_user == UserRepository_get_user_by_id(U, user_id)
        updated == UserRepository_update_user(U, user_id, update_data)
        call == AuditData(Some(user_id), "profile_update", "")
        logged == AuditLogger_log_action(A, call)
    IN  IF existing_user = None
        THEN Outcome(FALSE, "Usuario no encontrado", None, U, R, A, <<>>)
        ELSE IF "cedula" \notin UserUpdateRequest_fields
        THEN Outcome(FALSE, "Error actualizando perfil: AttributeError", None, U, R, A, <<>>)
        ELSE IF "cedula" \in update_data
                /\ \E u \in U : u.cedula = NewValue("cedula") /\ u.id # user_id
        THEN Outcome(FALSE, "La cedula ya esta registrada", None, U, R, A, <<>>)
        ELSE IF updated.user = None
        THEN Outcome(FALSE, "Error actualizando usuario", None, U, R, A, <<>>)
        ELSE Outcome(TRUE, "Perfil actualizado exitosamente", updated.user,
                     updated.table, R, logged.table, <<call>>)

\* Only the image keys of image_urls are passed on.
UserService_update_user_images(U, R, A, user_id, image_urls) ==
    LET update_dict == image_urls \cap {"profile_photo_url"}
        updated == UserRepository_update_user(U, user_id, update_dict)
        call == AuditData(Some(user_id), "images_update", "")
        logged == AuditLogger_log_action(A, call)
    IN  IF update_dict = {}
        THEN Outcome(FALSE, "No hay imagenes para actualizar", None, U, R, A, <<>>)
        ELSE IF updated.user = None
        THEN Outcome(FALSE, "Error actualizando imagenes", None, U, R, A, <<>>)
        ELSE Outcome(TRUE, "Imagenes actualizadas exitosamente", updated.user,
                     updated.table, R, logged.table, <<call>>)

\* What the caller of an update holds: the call, its target and its payload.
Updated(op, user_id, update_data, out) ==
    [user_id |-> user_id, update_data |-> update_data]
        @@ Completed(op, "", "", None, None, out)

UpdateUser(user_id, update_data) ==
    LET updated == UserRepository_update_user(users, user_id, update_data)
        out == Outcome(updated.user # None, "", updated.user, updated.table,
                       refresh_tokens, audit_logs, <<>>) IN
    /\ Idle
    /\ Commit(out)
    /\ resp' = Updated("update_user", user_id, update_data, out)
    /\ UNCHANGED <<now, rotated, req>>

UpdateUserProfile(user_id, body) ==
    LET out == UserService_update_user_profile(users, refresh_tokens, audit_logs,
                                               user_id, UserUpdateRequest(body)) IN
    /\ Idle
    /\ Commit(out)
    /\ resp' = Updated("update_user_profile", user_id, body, out)
    /\ UNCHANGED <<now, rotated, req>>

UpdateUserImages(user_id, image_urls) ==
    LET out == UserService_update_user_images(users, refresh_tokens, audit_logs,
                                              user_id, image_urls) IN
    /\ Idle
    /\ Commit(out)
    /\ resp' = Updated("update_user_images", user_id, image_urls, out)
    /\ UNCHANGED <<now, rotated, req>>

NextProfile ==
    \/ \E cedula \in Cedulas : Register(cedula, "password-1")
    \/ \E user_id \in UserIds \cup {3}, update_data \in SUBSET UpdateKeys :
          UpdateUser(user_id, update_data)
    \/ \E user_id \in UserIds \cup {3}, body \in SUBSET UpdateKeys :
          UpdateUserProfile(user_id, body)
    \/ \E user_id \in UserIds \cup {3}, image_urls \in SUBSET UpdateKeys :
          UpdateUserImages(user_id, image_urls)
    \/ Respond

SpecProfile == Init /\ [][NextProfile]_vars

\* The protected columns of a row.
Protected(u) ==
    [id |-> u.id, cedula |-> u.cedula, password_hash |-> u.password_hash,
     role |-> u.role, status |-> u.status, created_at |-> u.created_at]

UpdateOps == {"update_user", "update_user_profile", "update_user_images"}

\* C36: after any update_user, update_user_profile or update_user_images
\* call, whatever keys its payload holds, the table holds as many users as
\* before and every user has the id, cedula, password_hash, role, status
\* and created_at it had before the call.
C36_ProtectedFieldsKept ==
    [][(Idle /\ resp'.op \in UpdateOps)
         => /\ Cardinality(users') = Cardinality(users)
            /\ \A u \in users : \E n \in users' : Protected(n) = Protected(u)]_vars

\* An update_user call whose payload named every protected field and
\* first_name succeeded: it changed first_name.
C36_Witness ==
    /\ resp.op = "update_user"
    /\ resp.success
    /\ protected_fields \cup {"first_name"} \subseteq resp.update_data
    /\ \E u \in users : u.id = resp.user_id /\ u.first_name = "new_name"
                        /\ u.role = "customer"


-----------------------------------------------------------------------------
(* Logout with the refresh token of another user *)

\* C37: a logout whose access token the codec accepts with subject A, a
\* user who has logged in, and whose refresh token has a row owned by a
\* user other than A leaves that row, and so its revoked flag, as it was.
C37_LogoutSparesOthersTokens ==
    [][ (/\ CallOf("logout")
         /\ verify_token(The(resp'.token), "access", now) # None
         /\ \E u \in users : /\ u.id = The(resp'.token).payload.sub
                             /\ u.last_login # "null"
         /\ resp'.refresh_token # None)
        => \A r \in RowsOf(refresh_tokens, The(resp'.refresh_token)) :
              r.user_id # The(resp'.token).payload.sub => r \in refresh_tokens' ]_vars


-----------------------------------------------------------------------------
(* Ownership of refresh tokens *)

\* C38: after every step each row of the refresh_tokens table has the
\* user_id that its token string carries as subject, and a successful
\* refresh of token t returns an access token and a refresh token whose
\* subject is the user_id of the row that held t, and stores the new
\* refresh token in a row of that user.
C38_TokensBelongToRowOwner ==
    [][ /\ \A r \in refresh_tokens' : r.user_id = r.token.payload.sub
        /\ (CallOf("refresh") /\ resp'.success)
             => \A r \in RowsOf(refresh_tokens, The(resp'.refresh_token)) :
                  /\ The(resp'.payload).access_token.payload.sub = r.user_id
                  /\ The(resp'.payload).refresh_token.payload.sub = r.user_id
                  /\ \A n \in RowsOf(refresh_tokens', The(resp'.payload).refresh_token) :
                        n.user_id = r.user_id ]_vars

\* The second user refreshed a token while the first user holds a row too.
C38_Witness ==
    /\ resp.op = "refresh"
    /\ resp.success
    /\ The(resp.payload).refresh_token.payload.sub = 2
    /\ \E r \in refresh_tokens : r.token = The(resp.refresh_token) /\ r.user_id = 2
    /\ \E r \in refresh_tokens : r.user_id = 1


-----------------------------------------------------------------------------
(* register_user with store failures.  fault is the position of the        *)
(* repository call that raises: 1 check_cedula_exists, 2 create_user.      *)

RegisterFaults == 0..2

\* except Exception as e: return False, f"... {str(e)} {str(user_dict)}", None.
\* The clause reads the local user_dict: when the exception was raised
\* before user_dict was assigned, the read raises UnboundLocalError, which
\* leaves the method.
register_user_except(user_dict, message, U, R, A, steps) ==
    IF user_dict = None
    THEN [raised |-> TRUE, faulted |-> TRUE, success |-> FALSE,
          message |-> "UnboundLocalError", payload |-> None, users |-> U,
          refresh_tokens |-> R, audit_logs |-> A, calls |-> <<>>, steps |-> steps]
    ELSE Caught(message, U, R, A, steps)

AuthService_register_user_faulty(U, R, A, cedula, password, fault) ==
    LET out == AuthService_register_user(U, R, A, cedula, password)
        user_dict == Some([cedula |-> cedula, confirm_password |-> password])
        message == "Error registrando usuario: OperationalError"
    IN  IF fault = 1
        THEN register_user_except(None, message, U, R, A, <<"check_cedula_exists">>)
        ELSE IF UserRepository_check_cedula_exists(U, cedula)
        THEN Completes(out, <<"check_cedula_exists">>)
        ELSE IF fault = 2
        THEN register_user_except(user_dict, message, U, R, A,
                                  <<"check_cedula_exists", "create_user">>)
        ELSE Completes(out, <<"check_cedula_exists", "create_user">>)

RegisterFaulty(cedula, password, fault) ==
    LET out == AuthService_register_user_faulty(users, refresh_tokens, audit_logs,
                                                cedula, password, fault) IN
    /\ Idle
    /\ Commit(out)
    /\ resp' = CompletedFaulty("register", cedula, password, None, None, out)
    /\ UNCHANGED <<now, rotated, req>>

NextRegisterFault ==
    \/ \E cedula \in Cedulas, password \in Passwords, fault \in RegisterFaults :
          RegisterFaulty(cedula, password, fault)
    \/ Respond
    \/ Tick

SpecRegisterFault == Init /\ [][NextRegisterFault]_vars

\* C39: register_user never raises: every call returns an outcome, and a
\* call in which a repository call raised, the cedula existence check
\* included, returns (false, message, none) and leaves the users table as
\* it was.
C39_RegisterNeverRaises ==
    [][ CallOf("register")
        => /\ ~resp'.raised
           /\ resp'.faulted => /\ ~resp'.success
                               /\ resp'.payload = None
                               /\ users' = users ]_vars


-----------------------------------------------------------------------------
(* The frame of login *)

\* C40: a login whose cedula is unknown or whose password is wrong fails
\* and leaves the refresh_tokens table and the users table, last_login
\* included, as they were; a login that adds a refresh-token row or changes
\* a user returns success; and a login that returns success adds one row,
\* holding the returned refresh token and the caller's address for the
\* authenticated user, and sets last_login of that user and nothing else
\* in the users table.
C40_LoginFrame ==
    [][ CallOf("login")
        => LET user == UserRepository_authenticate_user(users, resp'.cedula, resp'.password)
           IN  /\ user = None
                    => /\ ~resp'.success
                       /\ refresh_tokens' = refresh_tokens
                       /\ users' = users
               /\ (AddedRows # {} \/ users' # users) => resp'.success
               /\ resp'.success
                    => /\ user # None
                       /\ \E n \in AddedRows :
                             /\ AddedRows = {n}
                             /\ n.token = The(resp'.payload).refresh_token
                             /\ n.user_id = The(user).id
                             /\ n.created_by_ip = IpAddress
                       /\ refresh_tokens \subseteq refresh_tokens'
                       /\ users' = UserRepository_update_last_login(users, The(user).id)
                       /\ \E u \in users' : u.id = The(user).id /\ u.last_login # "null" ]_vars

====
